---- MODULE Spec2Model ----
(***************************************************************************)
(* LocalWinAgent: the FileManager (tools/files.py), the dialogue state     *)
(* SessionState and the message dispatcher IntentRouter.handle_message     *)
(* (intent_router.py), as state machines.                                  *)
(*                                                                         *)
(* Eleven specifications share the variables:                              *)
(*   SpecFM      direct calls of the FileManager operations                *)
(*   SpecState   direct calls of SessionState under a moving clock         *)
(*   Spec        conversation turns through IntentRouter.handle_message    *)
(*   SpecAll     conversation turns and direct calls of SessionState       *)
(*   SpecConfirm file operations with and without confirmation             *)
(*   SpecInfer   IntentInferencer.infer on utterances by the rules they    *)
(*               match                                                     *)
(*   SpecWS      WebSocket connections through main.websocket_endpoint     *)
(*   SpecText    write_text and append_text on texts of two characters     *)
(*   SpecExtract IntentInferencer._extract_content on quoted contents      *)
(*   SpecIndex   IntentRouter._resolve_context_index on tokens and lengths *)
(*   SpecSandbox sandbox.run_py and the child process it starts            *)
(***************************************************************************)
EXTENDS Integers, Sequences, FiniteSets, TLC

VARIABLES
    fs,        \* the filesystem: node -> [t, c]
    info,      \* result dict of the last FileManager call
    st,        \* SessionState: last_results, last_kind, last_updated
    got,       \* value returned by the last get_results, infer or run_py call
    session,   \* AgentSession
    now,       \* time.time()
    resp,      \* envelope returned by the last handle_message call
    acts,      \* calls to external collaborators made by the last turn
    denied,    \* the operation the last turn answered with requires_confirmation
    call,      \* the last call made: operation and arguments
    sockets,   \* the WebSockets whose websocket_endpoint is running
    sessions,  \* ConnectionManager.sessions: id(websocket) -> AgentSession
    session_states  \* ConnectionManager.session_states: id(websocket) -> SessionState

vars == <<fs, info, st, got, session, now, resp, acts, denied, call,
          sockets, sessions, session_states>>

None == "none"

(***************************************************************************)
(* Paths.  A path component is a name with its suffix; a path is the       *)
(* sequence of its components below the filesystem root.                   *)
(***************************************************************************)
Comp(stem, ext) == [stem |-> stem, ext |-> ext]

UpC == Comp("..", "")
AllowC == Comp("allow", "")
OutC == Comp("out", "")
DesktopC == Comp("desktop", "")

\* a raw path as a caller gives it: absolute or relative, not yet resolved
Raw(abs, parts) == [abs |-> abs, parts |-> parts]

\* config/paths whitelist, as configured
Whitelist == << Raw(TRUE, <<AllowC>>) >>

FILE_KIND_EXT == [txt |-> ".txt", docx |-> ".docx", xlsx |-> ".xlsx", pptx |-> ".pptx"]

FileKinds == DOMAIN FILE_KIND_EXT

\* the aliases of FILE_TYPE_EXT used here, each with the kind of its extension
FILE_KIND_ALIASES == [text |-> "txt", word |-> "docx", excel |-> "xlsx", ppt |-> "pptx"]

KIND_BY_EXTENSION(ext) == CHOOSE k \in FileKinds : FILE_KIND_EXT[k] = ext

KnownExts == {FILE_KIND_EXT[k] : k \in FileKinds}

\* Path.resolve(strict=False) on an absolute path: ".." steps up, the root
\* is its own parent
RECURSIVE Collapse(_, _)
Collapse(parts, acc) ==
    IF parts = <<>> THEN acc
    ELSE IF Head(parts) = UpC
         THEN Collapse(Tail(parts),
                       IF acc = <<>> THEN <<>> ELSE SubSeq(acc, 1, Len(acc) - 1))
         ELSE Collapse(Tail(parts), Append(acc, Head(parts)))

get_desktop_path == <<DesktopC>>

normalize_path(raw, base) ==
    IF raw.abs THEN Collapse(raw.parts, <<>>)
    ELSE Collapse(base \o raw.parts, <<>>)

allowed_paths == [i \in 1..Len(Whitelist) |-> normalize_path(Whitelist[i], <<>>)]

default_root == IF Len(allowed_paths) > 0 THEN allowed_paths[1] ELSE get_desktop_path

normalize(raw) == normalize_path(raw, default_root)

normalize_kind(kind) ==
    IF kind = None THEN None
    ELSE IF kind \in FileKinds THEN kind
    ELSE IF kind \in DOMAIN FILE_KIND_ALIASES THEN FILE_KIND_ALIASES[kind]
    ELSE None

Suffix(parts) == IF parts = <<>> THEN "" ELSE parts[Len(parts)].ext

resolve_path(raw, kind) ==
    LET nk == normalize_kind(kind)
        n == Len(raw.parts)
        parts == IF nk # None /\ n > 0 /\ raw.parts[n].ext = ""
                 THEN [raw.parts EXCEPT ![n] = Comp(raw.parts[n].stem, FILE_KIND_EXT[nk])]
                 ELSE raw.parts
    IN  IF raw.abs THEN Collapse(parts, <<>>)
        ELSE Collapse(default_root \o parts, <<>>)

IsPrefix(p, q) == Len(p) <= Len(q) /\ SubSeq(q, 1, Len(p)) = p

is_allowed(path) ==
    \E i \in 1..Len(allowed_paths) : IsPrefix(allowed_paths[i], path)

(***************************************************************************)
(* The filesystem.  Nodes is the set of paths the modelled calls can name. *)
(***************************************************************************)
Absent == [t |-> "absent", c |-> <<>>]
Dir == [t |-> "dir", c |-> <<>>]
File(c) == [t |-> "file", c |-> c]

AllowDir == <<AllowC>>
OutDir == <<OutC>>
DirNodes == {AllowDir, OutDir}

FileNames == {Comp("a", ".txt"), Comp("b", ".txt"), Comp("n", ""),
              Comp("n", ".docx"), Comp("n", ".xlsx"), Comp("n", ".pptx")}

FileNodes == {Append(d, f) : d \in DirNodes, f \in FileNames}

Nodes == DirNodes \cup FileNodes

Parent(path) == SubSeq(path, 1, Len(path) - 1)

exists(f, path) == path \in Nodes /\ f[path].t # "absent"

is_dir(f, path) == path \in Nodes /\ f[path].t = "dir"

is_file(f, path) == path \in Nodes /\ f[path].t = "file"

inspect(f, path) ==
    [exists |-> exists(f, path),
     size |-> IF is_file(f, path) THEN Len(f[path].c) ELSE 0]

finalize(path, ok, ex, error, requires_confirmation) ==
    [ok |-> ok, path |-> path, requires_confirmation |-> requires_confirmation,
     exists |-> ex.exists, size |-> ex.size, error |-> error, items |-> <<>>]

make_confirmation(f, path) ==
    finalize(path, FALSE, inspect(f, path), "confirmation", TRUE)

Denied(f, path) == [denied |-> TRUE, info |-> make_confirmation(f, path)]

NotDenied == [denied |-> FALSE, info |-> None]

ensure_allowed_unchecked(f, path, confirmed) ==
    IF is_allowed(path) \/ ~confirmed THEN NotDenied ELSE Denied(f, path)

ensure_allowed(f, path, confirmed) ==
    IF is_allowed(path) \/ confirmed THEN NotDenied ELSE Denied(f, path)

handle_exception(f, path) ==
    finalize(path, FALSE, inspect(f, path), "exception", FALSE)

\* path.parent.mkdir(parents=True, exist_ok=True)
mkdir_parent(f, path) ==
    IF Parent(path) \in DirNodes /\ f[Parent(path)].t = "absent"
    THEN [f EXCEPT ![Parent(path)] = Dir]
    ELSE f

\* _sync_write: the parent is created, then the file is opened in mode "w"
\* or "a" and the content written
\* _sync_write putting the new text before the old one
sync_write_prepend(f, path, content, mode) ==
    LET g == mkdir_parent(f, path)
        old == IF mode = "a" /\ is_file(g, path) THEN g[path].c ELSE <<>>
    IN  [g EXCEPT ![path] = File(content \o old)]

sync_write(f, path, content, mode) ==
    LET g == mkdir_parent(f, path)
        old == IF mode = "a" /\ is_file(g, path) THEN g[path].c ELSE <<>>
    IN  [g EXCEPT ![path] = File(old \o content)]

Result(f, i) == [fs |-> f, info |-> i]

\* The body of a stored file is a sequence: the characters of a text file,
\* the paragraphs of a Word document, the content of cell A1 of a workbook,
\* the slides of a presentation.  io = TRUE is a call in which the operating
\* system refuses the write.
Written(f, target, g) ==
    Result(g, finalize(target, exists(g, target), inspect(g, target), "", FALSE))

create_file(f, raw, content, kind, confirmed, io) ==
    LET target == resolve_path(raw, kind)
        d == ensure_allowed(f, target, confirmed)
    IN  IF d.denied THEN Result(f, d.info)
        ELSE IF io \/ target \notin FileNodes THEN Result(f, handle_exception(f, target))
        ELSE Written(f, target, sync_write(f, target, content, "w"))

write_text(f, raw, content, confirmed, io) ==
    LET target == resolve_path(raw, None)
        d == ensure_allowed(f, target, confirmed)
    IN  IF d.denied THEN Result(f, d.info)
        ELSE IF io \/ target \notin FileNodes THEN Result(f, handle_exception(f, target))
        ELSE Written(f, target, sync_write(f, target, content, "w"))

append_text(f, raw, content, confirmed, io) ==
    LET target == resolve_path(raw, None)
        d == ensure_allowed(f, target, confirmed)
        mode == IF exists(f, target) THEN "a" ELSE "w"
    IN  IF d.denied THEN Result(f, d.info)
        ELSE IF io \/ target \notin FileNodes THEN Result(f, handle_exception(f, target))
        ELSE Written(f, target, sync_write(f, target, content, mode))

\* edit_word adds the paragraphs to the document, edit_pptx adds a slide
edit_word(f, raw, content, confirmed, io) ==
    LET target == resolve_path(raw, "docx")
        d == ensure_allowed(f, target, confirmed)
    IN  IF d.denied THEN Result(f, d.info)
        ELSE IF io \/ target \notin FileNodes THEN Result(f, handle_exception(f, target))
        ELSE Written(f, target, sync_write(f, target, content, "a"))

\* edit_excel sets the cell of a loaded or new workbook
edit_excel(f, raw, value, confirmed, io) ==
    LET target == resolve_path(raw, "xlsx")
        d == ensure_allowed(f, target, confirmed)
    IN  IF d.denied THEN Result(f, d.info)
        ELSE IF io \/ target \notin FileNodes THEN Result(f, handle_exception(f, target))
        ELSE Written(f, target, sync_write(f, target, value, "w"))

edit_pptx(f, raw, content, confirmed, io) ==
    LET target == resolve_path(raw, "pptx")
        d == ensure_allowed(f, target, confirmed)
    IN  IF d.denied THEN Result(f, d.info)
        ELSE IF io \/ target \notin FileNodes THEN Result(f, handle_exception(f, target))
        ELSE Written(f, target, sync_write(f, target, content, "a"))

\* shutil.move of a file: a missing source raises after the destination's
\* parent was created; moving a file onto itself changes nothing
move_path(f, src, dst, confirmed, io) ==
    LET source == resolve_path(src, None)
        destination == resolve_path(dst, None)
        d1 == ensure_allowed(f, source, confirmed)
        d2 == ensure_allowed(f, destination, confirmed)
        g == mkdir_parent(f, destination)
        h == IF source = destination THEN g
             ELSE [g EXCEPT ![destination] = g[source], ![source] = Absent]
    IN  IF d1.denied THEN Result(f, d1.info)
        ELSE IF d2.denied THEN Result(f, d2.info)
        ELSE IF io \/ destination \notin FileNodes THEN Result(f, handle_exception(f, destination))
        ELSE IF ~is_file(g, source) THEN Result(g, handle_exception(g, destination))
        ELSE Written(f, destination, h)

\* shutil.copy2 of a file: a missing source, or the file itself as the
\* destination, raises after the destination's parent was created
copy_path(f, src, dst, confirmed, io) ==
    LET source == resolve_path(src, None)
        destination == resolve_path(dst, None)
        d1 == ensure_allowed(f, source, confirmed)
        d2 == ensure_allowed(f, destination, confirmed)
        g == mkdir_parent(f, destination)
    IN  IF d1.denied THEN Result(f, d1.info)
        ELSE IF d2.denied THEN Result(f, d2.info)
        ELSE IF io \/ destination \notin FileNodes THEN Result(f, handle_exception(f, destination))
        ELSE IF ~is_file(g, source) \/ source = destination
             THEN Result(g, handle_exception(g, destination))
        ELSE Written(f, destination, [g EXCEPT ![destination] = g[source]])

\* rmtree of a directory removes it with everything below it
delete_path(f, raw, confirmed, io) ==
    LET target == resolve_path(raw, None)
        d == ensure_allowed(f, target, confirmed)
        g == IF is_dir(f, target)
             THEN [p \in Nodes |-> IF IsPrefix(target, p) THEN Absent ELSE f[p]]
             ELSE IF exists(f, target) THEN [f EXCEPT ![target] = Absent]
             ELSE f
    IN  IF d.denied THEN Result(f, d.info)
        ELSE IF io THEN Result(f, handle_exception(f, target))
        ELSE Result(g, finalize(target, ~exists(g, target), inspect(g, target), "", FALSE))

\* the names in a directory in the order of sorted(..., key=name.lower())
NameOrder == <<Comp("a", ".txt"), Comp("b", ".txt"), Comp("n", ""),
               Comp("n", ".docx"), Comp("n", ".pptx"), Comp("n", ".xlsx")>>

listing(f, directory) ==
    SelectSeq(NameOrder, LAMBDA c : exists(f, Append(directory, c)))

\* path = None lists the default root
NoPath == Raw(FALSE, <<>>)

list_directory(f, raw, confirmed, io) ==
    LET directory == IF raw = NoPath THEN default_root ELSE resolve_path(raw, None)
        d == ensure_allowed(f, directory, confirmed)
    IN  IF d.denied THEN Result(f, d.info)
        ELSE IF io \/ ~is_dir(f, directory) THEN Result(f, handle_exception(f, directory))
        ELSE Result(f, [ok |-> TRUE, path |-> directory, requires_confirmation |-> FALSE,
                        exists |-> TRUE, size |-> 0, error |-> "",
                        items |-> listing(f, directory)])

(***************************************************************************)
(* Initial values.                                                         *)
(***************************************************************************)
MaxContent == 1
MaxMatches == 2
StartTime == 1000
MaxClock == 2802

Contents == {<<>>, <<"x">>}

NoInfo == [ok |-> FALSE, path |-> <<>>, requires_confirmation |-> FALSE,
           exists |-> FALSE, size |-> 0, error |-> "", items |-> <<>>]

NoCall == [api |-> None, op |-> None, raw |-> NoPath, dst |-> NoPath,
           kind |-> None, confirmed |-> FALSE]

\* the result of infer when no rule matches; the fields are the parameters
\* an intent can carry
NoIntent == [intent |-> None, path |-> "", query |-> "", name |-> "", url |-> "",
             content |-> <<>>, kind |-> None, mode |-> None, open_first |-> FALSE,
             from_context |-> FALSE, utterance |-> {}]

fs0 == [p \in Nodes |->
          IF p \in DirNodes THEN Dir
          ELSE IF p = <<OutC, Comp("b", ".txt")>> THEN File(<<"x">>)
          ELSE Absent]

\* SessionState()
SessionState0 == [last_results |-> <<>>, last_kind |-> "none", last_updated |-> 0]

\* AgentSession()
AgentSession0 == [auto_confirm |-> FALSE, pending |-> None, preferred_browser |-> None,
                  awaiting_browser_choice |-> FALSE, available_browsers |-> <<>>]

NoResp == [reply |-> None, ok |-> FALSE, requires_confirmation |-> FALSE,
           items |-> <<>>, has_items |-> FALSE]

InitAll ==
    /\ fs = fs0
    /\ info = NoInfo
    /\ st = SessionState0
    /\ got = <<>>
    /\ session = AgentSession0
    /\ now = StartTime
    /\ resp = NoResp
    /\ acts = <<>>
    /\ denied = NoIntent
    /\ call = NoCall
    /\ sockets = {}
    /\ sessions = [k \in {} |-> AgentSession0]
    /\ session_states = [k \in {} |-> SessionState0]

(***************************************************************************)
(* SpecFM: the FileManager operations called directly.                     *)
(***************************************************************************)
RawA == Raw(FALSE, <<Comp("a", ".txt")>>)
RawB == Raw(TRUE, <<AllowC, UpC, OutC, Comp("b", ".txt")>>)
RawN == Raw(FALSE, <<Comp("n", "")>>)

FileRaws == {RawA, RawB}

DirRaws == {NoPath, Raw(TRUE, <<OutC>>)}

KindArgs == {None, "word"}

FMCall(op, raw, dst, kind, confirmed) ==
    [api |-> "fm", op |-> op, raw |-> raw, dst |-> dst, kind |-> kind,
     confirmed |-> confirmed]

\* the content stays within MaxContent
Fits(r) == \A p \in Nodes : Len(r.fs[p].c) <= MaxContent

FMStep(r, c) ==
    /\ Fits(r)
    /\ fs' = r.fs
    /\ info' = r.info
    /\ call' = c
    /\ UNCHANGED <<sockets, sessions, session_states, st, got, session, now, resp, acts, denied>>

FMCreate ==
    \E raw \in FileRaws \cup {RawN}, content \in Contents, kind \in KindArgs, confirmed, io \in BOOLEAN :
        FMStep(create_file(fs, raw, content, kind, confirmed, io),
               FMCall("create_file", raw, NoPath, kind, confirmed))

FMWrite ==
    \E raw \in FileRaws, content \in Contents, confirmed, io \in BOOLEAN :
        FMStep(write_text(fs, raw, content, confirmed, io),
               FMCall("write_text", raw, NoPath, None, confirmed))

FMAppend ==
    \E raw \in FileRaws, content \in Contents, confirmed, io \in BOOLEAN :
        FMStep(append_text(fs, raw, content, confirmed, io),
               FMCall("append_text", raw, NoPath, None, confirmed))

FMEditWord ==
    \E raw \in FileRaws \cup {RawN}, content \in Contents, confirmed, io \in BOOLEAN :
        FMStep(edit_word(fs, raw, content, confirmed, io),
               FMCall("edit_word", raw, NoPath, "docx", confirmed))

FMEditExcel ==
    \E raw \in FileRaws, content \in Contents, confirmed, io \in BOOLEAN :
        FMStep(edit_excel(fs, raw, content, confirmed, io),
               FMCall("edit_excel", raw, NoPath, "xlsx", confirmed))

FMEditPptx ==
    \E raw \in FileRaws, content \in Contents, confirmed, io \in BOOLEAN :
        FMStep(edit_pptx(fs, raw, content, confirmed, io),
               FMCall("edit_pptx", raw, NoPath, "pptx", confirmed))

FMMove ==
    \E src \in FileRaws, dst \in FileRaws, confirmed, io \in BOOLEAN :
        FMStep(move_path(fs, src, dst, confirmed, io),
               FMCall("move_path", src, dst, None, confirmed))

FMCopy ==
    \E src \in FileRaws, dst \in FileRaws, confirmed, io \in BOOLEAN :
        FMStep(copy_path(fs, src, dst, confirmed, io),
               FMCall("copy_path", src, dst, None, confirmed))

FMDelete ==
    \E raw \in FileRaws \cup DirRaws, confirmed, io \in BOOLEAN :
        FMStep(delete_path(fs, raw, confirmed, io),
               FMCall("delete_path", raw, NoPath, None, confirmed))

FMList ==
    \E raw \in FileRaws \cup DirRaws, confirmed, io \in BOOLEAN :
        FMStep(list_directory(fs, raw, confirmed, io),
               FMCall("list_directory", raw, NoPath, None, confirmed))

NextFM ==
    \/ FMCreate
    \/ FMWrite
    \/ FMAppend
    \/ FMEditWord
    \/ FMEditExcel
    \/ FMEditPptx
    \/ FMMove
    \/ FMCopy
    \/ FMDelete
    \/ FMList

SpecFM == InitAll /\ [][NextFM]_vars

(***************************************************************************)
(* Claims about the FileManager.                                           *)
(***************************************************************************)
\* the resolved paths a FileManager call checks against the whitelist
TargetsOf(c) ==
    IF c.op \in {"move_path", "copy_path"}
    THEN {resolve_path(c.raw, None), resolve_path(c.dst, None)}
    ELSE {resolve_path(c.raw, c.kind)}

OutsideUnconfirmed(c) ==
    /\ c.api = "fm"
    /\ ~c.confirmed
    /\ \E t \in TargetsOf(c) : ~is_allowed(t)

\* C1: a FileManager operation whose resolved target (for move and copy the
\* source or the destination) lies outside every whitelisted directory and
\* that is called with confirmed = false returns ok = false with
\* requires_confirmation = true and leaves the filesystem as it was.
C1_UnconfirmedOutsideIsRefused ==
    [][OutsideUnconfirmed(call') =>
         /\ info'.ok = FALSE
         /\ info'.requires_confirmation = TRUE
         /\ fs' = fs]_vars

\* an unconfirmed move of an existing whitelisted file to a place outside the
\* whitelist was refused
C1_Witness ==
    /\ call.api = "fm"
    /\ call.op = "move_path"
    /\ ~call.confirmed
    /\ is_allowed(resolve_path(call.raw, None))
    /\ is_file(fs, resolve_path(call.raw, None))
    /\ ~is_allowed(resolve_path(call.dst, None))
    /\ info.requires_confirmation

(***************************************************************************)
(* SessionState.  An operation takes the state and the clock and returns   *)
(* the new state.                                                          *)
(***************************************************************************)
TTL == 900

\* [item for item in results if item]: the empty string is dropped
filter_items(results) == SelectSeq(results, LAMBDA item : item # "")

clear_results_keep_kind(s) == [s EXCEPT !.last_results = <<>>, !.last_updated = 0]

clear_results(s) == [last_results |-> <<>>, last_kind |-> "none", last_updated |-> 0]

set_results_keep_kind(s, results, kind, t) ==
    IF filter_items(results) # <<>>
    THEN [last_results |-> filter_items(results), last_kind |-> kind, last_updated |-> t]
    ELSE [clear_results(s) EXCEPT !.last_kind = kind]

set_results(s, results, kind, t) ==
    IF filter_items(results) # <<>>
    THEN [last_results |-> filter_items(results), last_kind |-> kind, last_updated |-> t]
    ELSE clear_results(s)

\* kind = None is the call without a kind
get_results(s, kind) ==
    IF kind # None /\ kind # s.last_kind THEN <<>> ELSE s.last_results

(***************************************************************************)
(* SpecState: SessionState called directly while the clock advances.       *)
(***************************************************************************)
ClockSteps == {TTL, TTL + 1}

Tick ==
    \E d \in ClockSteps :
        /\ now + d <= MaxClock
        /\ now' = now + d
        /\ call' = [NoCall EXCEPT !.api = "clock"]
        /\ UNCHANGED <<sockets, sessions, session_states, fs, info, st, got, session, resp, acts, denied>>

ResultArgs == {<<>>, <<"">>, <<"x">>, <<"y", "", "x">>}

ResultKinds == {"file", "web", "app"}

StateCall(op, kind) == [NoCall EXCEPT !.api = "state", !.op = op, !.kind = kind]

SetResults ==
    \E results \in ResultArgs, kind \in ResultKinds :
        /\ st' = set_results(st, results, kind, now)
        /\ call' = StateCall("set_results", kind)
        /\ UNCHANGED <<sockets, sessions, session_states, fs, info, got, session, now, resp, acts, denied>>

ClearResults ==
    /\ st' = clear_results(st)
    /\ call' = StateCall("clear_results", None)
    /\ UNCHANGED <<sockets, sessions, session_states, fs, info, got, session, now, resp, acts, denied>>

GetResults ==
    \E kind \in ResultKinds \cup {None} :
        /\ got' = get_results(st, kind)
        /\ call' = StateCall("get_results", kind)
        /\ UNCHANGED <<sockets, sessions, session_states, fs, info, st, session, now, resp, acts, denied>>

NextState ==
    \/ Tick
    \/ SetResults
    \/ ClearResults
    \/ GetResults

SpecState == InitAll /\ [][NextState]_vars

\* C9: get_results() called more than 900 seconds after the last
\* set_results(), with no other call in between, returns an empty list, and
\* last_kind then reads "none".
C9_GetResultsExpires ==
    (/\ call.api = "state"
     /\ call.op = "get_results"
     /\ call.kind = None
     /\ now - st.last_updated > TTL)
    => (got = <<>> /\ st.last_kind = "none")

\* C7: an empty last_results implies last_kind = "none".
C7_EmptyResultsHaveNoKind ==
    st.last_results = <<>> => st.last_kind = "none"

(***************************************************************************)
(* Strings.  The strings the router tests or converts are a finite set;    *)
(* str(Path), Path(str), str.isdigit, int(str) and str.startswith are      *)
(* given on it.  Russian words are written in Latin transliteration.       *)
(***************************************************************************)
NodeA == <<AllowC, Comp("a", ".txt")>>
NodeB == <<OutC, Comp("b", ".txt")>>
NodeN == <<AllowC, Comp("n", "")>>

\* str(path) of a resolved path
StrOf(path) ==
    CASE path = NodeA -> "/allow/a.txt"
      [] path = NodeB -> "/out/b.txt"
      [] path = NodeN -> "/allow/n"
      [] path = AllowDir -> "/allow"
      [] path = OutDir -> "/out"
      [] path = get_desktop_path -> "/desktop"
      [] OTHER -> "/other"

\* Path(text)
PathOf(text) ==
    CASE text = "/allow/a.txt" -> Raw(TRUE, NodeA)
      [] text = "/out/b.txt" -> Raw(TRUE, NodeB)
      [] text = "/allow/n" -> Raw(TRUE, NodeN)
      [] text = "/allow" -> Raw(TRUE, AllowDir)
      [] text = "/out" -> Raw(TRUE, OutDir)
      [] text = "/desktop" -> Raw(TRUE, get_desktop_path)
      [] text = "a.txt" -> RawA
      [] text = "/allow/../out/b.txt" -> RawB
      [] text = "n" -> RawN
      [] text = "" -> NoPath
      [] OTHER -> Raw(FALSE, <<Comp(text, "")>>)

Digits == {"0", "1", "2", "3", "4"}

isdigit(text) == text \in Digits

int(text) ==
    CASE text = "0" -> 0
      [] text = "1" -> 1
      [] text = "2" -> 2
      [] text = "3" -> 3
      [] text = "4" -> 4

Pronouns == {"ego", "ee", "yeyo", "ih"}

startswith(text, prefix) ==
    CASE prefix = "perv" -> text \in {"pervyj", "pervuyu", "perv"}
      [] prefix = "vtor" -> text \in {"vtoroj", "vtoruyu", "vtor"}
      [] prefix = "tret" -> text \in {"tretij", "tretyu", "tret"}
      [] prefix = "posledn" -> text \in {"poslednij", "poslednyu", "posledn"}
      [] prefix = "posled" -> text \in {"poslednij", "poslednyu", "posledn", "posled"}
      [] OTHER -> FALSE

(***************************************************************************)
(* Context references.                                                     *)
(***************************************************************************)
NoIndex == 0 - 1

WORD_TO_INDEX == <<[prefix |-> "perv", value |-> 0],
                   [prefix |-> "vtor", value |-> 1],
                   [prefix |-> "tret", value |-> 2]>>

WordIndex(token) ==
    LET hits == SelectSeq(WORD_TO_INDEX, LAMBDA e : startswith(token, e.prefix))
    IN  IF hits = <<>> THEN NoIndex ELSE hits[1].value

\* the index before the range check; NoIndex when no rule applies
raw_context_index(token, total) ==
    IF isdigit(token) THEN int(token) - 1
    ELSE IF startswith(token, "posledn") THEN total - 1
    ELSE IF token \in Pronouns THEN 0
    ELSE WordIndex(token)

resolve_context_index_clamped(token, total) ==
    LET index == raw_context_index(token, total)
    IN  IF index < 0 THEN NoIndex ELSE IF index >= total THEN total - 1 ELSE index

resolve_context_index(token, total) ==
    LET index == raw_context_index(token, total)
    IN  IF index < 0 \/ index >= total THEN NoIndex ELSE index

(***************************************************************************)
(* Messages.  A message is what the router's recognizers see in its text:  *)
(* whether it is blank, a reset phrase, the token CONTEXT_RE captures, the *)
(* browsers it names, a desktop phrase, the patterns of                    *)
(* IntentInferencer.infer that match it, and the groups they capture.      *)
(***************************************************************************)
NoMsg == [text |-> "", empty |-> FALSE, reset |-> FALSE, ctx |-> "",
          browsers |-> {}, desktop |-> "", match |-> {}, path |-> "",
          content |-> <<>>, kind |-> None, mode |-> None, query |-> "",
          name |-> "", url |-> "", open_first |-> FALSE]

MsgBlank == [NoMsg EXCEPT !.text = " ", !.empty = TRUE]

MsgReset == [NoMsg EXCEPT !.text = "sbros konteksta", !.reset = TRUE]

\* "otkroj <token>": CONTEXT_RE captures the token
MsgContext(token) ==
    [NoMsg EXCEPT !.text = "otkroj", !.ctx = token,
                  !.match = {"open_generic"}, !.query = token]

\* "otkroj <token> v chrome": a context reference that names a browser
MsgContextIn(token, browser) ==
    [NoMsg EXCEPT !.text = "otkroj v", !.ctx = token, !.browsers = {browser},
                  !.match = {"open_app", "open_generic"}, !.name = browser,
                  !.query = token]

\* "pokazhi <target>": only OPEN_GENERIC_RE matches
MsgShow(target) ==
    [NoMsg EXCEPT !.text = "pokazhi", !.match = {"open_generic"}, !.query = target]

\* "otkroj fajl <path>"
MsgOpenFile(path) ==
    [NoMsg EXCEPT !.text = "otkroj fajl", !.match = {"open_file", "open_generic"},
                  !.path = path, !.query = path]

\* "najdi fajl otchet": SEARCH_FILE_RE with a file hint
MsgFindFile ==
    [NoMsg EXCEPT !.text = "najdi fajl otchet", !.match = {"search_file", "local"},
                  !.query = "fajl otchet"]

\* "najdi kotiki": a search verb without file hint
MsgFindLocal ==
    [NoMsg EXCEPT !.text = "najdi kotiki", !.match = {"local"}, !.query = "kotiki"]

\* "posmotret skrinshot": no verb of search, the file hint alone
MsgLook ==
    [NoMsg EXCEPT !.text = "posmotret skrinshot", !.match = {"local"},
                  !.query = "skrinshot"]

\* "pokazhi foto v internete": a file hint and a phrase of web search
MsgFileOrWeb ==
    [NoMsg EXCEPT !.text = "pokazhi foto v internete",
                  !.match = {"web_search", "local"}, !.query = "foto",
                  !.open_first = TRUE]

\* "najdi v internete kotiki" and "poishchi v internete kotiki"
MsgFindWeb(open_first) ==
    [NoMsg EXCEPT !.text = "v internete kotiki", !.match = {"web_search", "local"},
                  !.query = "kotiki", !.open_first = open_first]

\* "zajdi na https://u1"
MsgUrl ==
    [NoMsg EXCEPT !.text = "zajdi na https://u1", !.match = {"url"}, !.url = "u1"]

\* "chrome": names a browser and is an alias of an application
MsgChrome ==
    [NoMsg EXCEPT !.text = "chrome", !.browsers = {"chrome"},
                  !.match = {"open_app"}, !.name = "chrome"]

\* "edge"
MsgEdge ==
    [NoMsg EXCEPT !.text = "edge", !.browsers = {"edge"},
                  !.match = {"open_app"}, !.name = "edge"]

\* "firefox"
MsgFirefox ==
    [NoMsg EXCEPT !.text = "firefox", !.browsers = {"firefox"},
                  !.match = {"open_app"}, !.name = "firefox"]

\* "otkroj brauzer"
MsgBrowser ==
    [NoMsg EXCEPT !.text = "otkroj brauzer",
                  !.match = {"open_browser", "open_app", "open_generic"},
                  !.name = "chrome", !.query = "brauzer"]

\* "privet", "da", "net": nothing matches
MsgChat(text) == [NoMsg EXCEPT !.text = text]

\* "zapishi v <path> tekst <content>"
MsgWrite(path, content) ==
    [NoMsg EXCEPT !.text = "zapishi v", !.match = {"write"}, !.path = path,
                  !.content = content]

\* "dopishi v <path> tekst <content>": the edit command has no explicit path
MsgAppend(path, content) ==
    [NoMsg EXCEPT !.text = "dopishi v", !.match = {"append"}, !.path = path,
                  !.content = content]

\* "sozdaj <kind> <path> s tekstom <content>"
MsgCreate(path, kind, content) ==
    [NoMsg EXCEPT !.text = "sozdaj", !.match = {"create"}, !.path = path,
                  !.kind = kind, !.content = content]

\* "otredaktiruj <kind> <path> tekst <content>"
MsgEdit(path, kind, mode, content) ==
    [NoMsg EXCEPT !.text = "otredaktiruj", !.match = {"edit"}, !.path = path,
                  !.kind = kind, !.mode = mode, !.content = content]

\* "sgeneriruj <query> i dopishi v <path>"
MsgGenerate(path, query) ==
    [NoMsg EXCEPT !.text = "sgeneriruj", !.match = {"generate"}, !.path = path,
                  !.query = query]

\* "pokazhi katalog <path>"
MsgList(path) ==
    [NoMsg EXCEPT !.text = "pokazhi katalog", !.match = {"list", "open_generic"},
                  !.path = path, !.query = path]

\* "kakoj put do rabochego stola" and "pokazhi rabochij stol"
MsgDesktop(which) ==
    [NoMsg EXCEPT !.text = "rabochij stol", !.desktop = which]

(***************************************************************************)
(* IntentInferencer.infer: the first rule that matches decides.            *)
(***************************************************************************)
\* _clean_query: the message without its command words
clean_query(m) == m.query

InferRulesAppendFirst ==
    <<"refresh", "create", "edit", "generate", "append", "write", "list",
      "open_file", "close_app", "open_browser", "open_app", "search_file",
      "open_generic", "url", "web_search", "local">>

InferRules == <<"refresh", "create", "edit", "generate", "write", "append", "list",
                "open_file", "close_app", "open_browser", "open_app", "search_file",
                "open_generic", "url", "web_search", "local">>

\* what a rule returns for the message
RuleIntent(rule, m) ==
    CASE rule = "refresh" -> [NoIntent EXCEPT !.intent = "refresh_apps"]
      [] rule = "create" ->
            [NoIntent EXCEPT !.intent = "create_file", !.path = m.path,
                             !.content = m.content, !.kind = m.kind]
      [] rule = "edit" ->
            [NoIntent EXCEPT !.intent = "edit_file", !.path = m.path,
                             !.content = m.content, !.kind = m.kind, !.mode = m.mode]
      [] rule = "generate" ->
            [NoIntent EXCEPT !.intent = "generate_append_txt", !.path = m.path,
                             !.query = m.query]
      [] rule = "write" ->
            [NoIntent EXCEPT !.intent = "write_file", !.path = m.path,
                             !.content = m.content]
      [] rule = "append" ->
            [NoIntent EXCEPT !.intent = "append_file", !.path = m.path,
                             !.content = m.content]
      [] rule = "list" -> [NoIntent EXCEPT !.intent = "list_directory", !.path = m.path]
      [] rule = "open_file" -> [NoIntent EXCEPT !.intent = "open_file", !.path = m.path]
      [] rule = "close_app" -> [NoIntent EXCEPT !.intent = "close_app", !.name = m.name]
      [] rule = "open_browser" -> [NoIntent EXCEPT !.intent = "open_browser"]
      [] rule = "open_app" -> [NoIntent EXCEPT !.intent = "open_app", !.name = m.name]
      [] rule = "search_file" -> [NoIntent EXCEPT !.intent = "search_file", !.query = m.query]
      [] rule = "open_generic" -> [NoIntent EXCEPT !.intent = "open_file", !.query = m.query]
      [] rule = "url" -> [NoIntent EXCEPT !.intent = "open_web", !.url = m.url]
      [] rule = "web_search" ->
            [NoIntent EXCEPT !.intent = "search_web", !.query = clean_query(m),
                             !.open_first = m.open_first]
      [] rule = "local" ->
            [NoIntent EXCEPT !.intent = "search_local", !.query = clean_query(m)]

FilePrefixes == {"perv", "vtor", "tret", "posled"}

\* _looks_like_path on the strings used here
looks_like_path(text) == text \in {"/allow/a.txt", "/out/b.txt", "/allow/n", "/allow",
                                   "/out", "/desktop", "a.txt", "/allow/../out/b.txt"}

looks_like_file_reference(text) ==
    \/ isdigit(text)
    \/ text \in Pronouns
    \/ \E prefix \in FilePrefixes : startswith(text, prefix)
    \/ looks_like_path(text)

\* a rule applies when its pattern matches and its extra condition holds
Applies(rule, m) ==
    /\ rule \in m.match
    /\ rule = "open_generic" => looks_like_file_reference(m.query)

infer(m) ==
    LET hits == SelectSeq(InferRules, LAMBDA rule : Applies(rule, m))
    IN  IF hits = <<>> THEN NoIntent ELSE RuleIntent(hits[1], m)

(***************************************************************************)
(* The collaborators.  env is what the outside world does during one call  *)
(* of handle_message:                                                      *)
(*   found      what the search backend or the application index returns   *)
(*   ok         whether the operating system opens or launches the target  *)
(*   raise      the search backend raises, the sandboxed task fails, or    *)
(*              the language model client raises                           *)
(*   down       the language model is unreachable and OllamaClient returns *)
(*              its error text as the answer                               *)
(*   none       the launch starts a shortcut and returns no result         *)
(*   confident  whether the best application candidate is a confident one  *)
(*   installed  the browsers installed                                     *)
(*   io         the operating system refuses a file write                  *)
(*   final      the address a page redirects to, "" without redirect       *)
(***************************************************************************)
Env0 == [found |-> <<>>, ok |-> TRUE, raise |-> FALSE, none |-> FALSE,
         confident |-> FALSE, installed |-> {}, io |-> FALSE, final |-> "",
         down |-> FALSE]

\* one call of a collaborator, with whether it did what it was asked
Act(a, arg, ok) == [a |-> a, arg |-> arg, ok |-> ok]

\* the state a turn works on
W(f, s, ses, a) == [fs |-> f, st |-> s, session |-> ses, acts |-> a]

make_response(reply, ok, items, has_items, requires_confirmation) ==
    [reply |-> reply, ok |-> ok, requires_confirmation |-> requires_confirmation,
     items |-> items, has_items |-> has_items]

\* a turn's outcome: the state it leaves and the envelope it returns
Turn(w, response) == [w |-> w, resp |-> response]

Reply(w, reply, ok) == Turn(w, make_response(reply, ok, <<>>, FALSE, FALSE))

\* an exception that reaches handle_message's except clause
Raised(w) == Reply(w, "error", FALSE)

\* FileManager.open_path: no whitelist check
open_path(f, text, env) ==
    LET target == resolve_path(PathOf(text), None)
    IN  IF ~exists(f, target)
        THEN finalize(target, FALSE, [exists |-> FALSE, size |-> 0], "missing", FALSE)
        ELSE finalize(target, env.ok, inspect(f, target),
                      IF env.ok THEN "" ELSE "exception", FALSE)

(***************************************************************************)
(* Handlers of IntentRouter.  Each takes the parameters, the turn state w, *)
(* the environment and the clock and returns a Turn.                       *)
(***************************************************************************)
Called(w, act) == [w EXCEPT !.acts = Append(w.acts, act)]

use_context(token) ==
    \/ isdigit(token)
    \/ token \in Pronouns
    \/ \E prefix \in FilePrefixes : startswith(token, prefix)

handle_open_file(p, w, env, t) ==
    LET token == IF p.path # "" THEN p.path ELSE p.query
        candidates == get_results(w.st, "file")
        index == resolve_context_index(token, Len(candidates))
        target_path == IF use_context(token) THEN candidates[index + 1] ELSE token
        w1 == IF use_context(token) THEN [w EXCEPT !.st.last_updated = t] ELSE w
        opened == open_path(w.fs, target_path, env)
        w2 == Called(w1, Act("open_path", target_path, opened.ok))
    IN  IF token = "" THEN Reply(w, "no_path", FALSE)
        ELSE IF use_context(token) /\ candidates = <<>> THEN Reply(w, "no_results", FALSE)
        ELSE IF use_context(token) /\ index = NoIndex THEN Reply(w, "choose_range", FALSE)
        ELSE IF opened.ok THEN Reply(w2, "opened", TRUE)
        ELSE Reply(w2, "open_failed", FALSE)

\* handle_search_file opening the first found path
handle_search_file_open(p, w, env, t) ==
    LET normalized == filter_items(env.found)
        w1 == Called(w, Act("search_files", p.query, ~env.raise))
    IN  IF p.query = "" \/ env.raise \/ normalized = <<>>
        THEN Turn([w EXCEPT !.st = clear_results(w.st)],
                  make_response("nothing_found", FALSE, <<>>, TRUE, FALSE))
        ELSE Turn([Called(w1, Act("open_path", normalized[1], TRUE))
                       EXCEPT !.st = set_results(w.st, normalized, "file", t)],
                  make_response("found", TRUE, normalized, TRUE, FALSE))

handle_search_file(p, w, env, t) ==
    LET normalized == filter_items(env.found)
        w1 == Called(w, Act("search_files", p.query, ~env.raise))
    IN  IF p.query = ""
        THEN Turn([w EXCEPT !.st = clear_results(w.st)],
                  make_response("no_query", FALSE, <<>>, TRUE, FALSE))
        ELSE IF env.raise THEN Raised(w1)
        ELSE IF normalized = <<>>
        THEN Turn([w1 EXCEPT !.st = clear_results(w.st)],
                  make_response("nothing_found", FALSE, <<>>, TRUE, FALSE))
        ELSE Turn([w1 EXCEPT !.st = set_results(w.st, normalized, "file", t)],
                  make_response("found", TRUE, normalized, TRUE, FALSE))

\* apps.close and apps.refresh_index
handle_close_app(p, w, env) ==
    IF p.name = "" THEN Reply(w, "no_app", FALSE)
    ELSE Reply(Called(w, Act("close", p.name, env.ok)),
               IF env.ok THEN "closed" ELSE "close_failed", env.ok)

handle_refresh_apps(w, env) ==
    Reply(Called(w, Act("refresh_index", "", env.ok)),
          IF env.ok THEN "refreshed" ELSE "refresh_failed", env.ok)

\* the result dict of a launch: ok with the launched name, or an error
finalize_app_launch(ok, launched, w, from_context, t) ==
    LET w1 == IF ~ok \/ launched = "" THEN w
              ELSE IF from_context THEN [w EXCEPT !.st.last_updated = t]
              ELSE [w EXCEPT !.st = set_results(w.st, <<launched>>, "app", t)]
    IN  Reply(w1, IF ok THEN "launched" ELSE "launch_failed", ok)

\* the title of the application an alias belongs to
TitleOf(name) == IF name = "chrome" THEN "Google Chrome" ELSE name

handle_open_app(p, w, env, t) ==
    LET query == p.name
        ranked == env.found
        w1 == Called(w, Act("launch", IF p.from_context \/ ranked = <<>>
                                      THEN query ELSE ranked[1], env.ok))
    IN  IF query = "" THEN Reply(w, "no_app", FALSE)
        ELSE IF p.from_context
        THEN IF env.none THEN Raised(w1)
             ELSE finalize_app_launch(env.ok, query, w1, TRUE, t)
        ELSE IF ranked # <<>> /\ env.confident
        THEN IF env.none THEN Raised(w1)
             ELSE finalize_app_launch(env.ok, ranked[1], w1, FALSE, t)
        ELSE IF ranked # <<>>
        THEN Turn([w EXCEPT !.st = set_results(w.st, ranked, "app", t)],
                  make_response("several_apps", FALSE, ranked, TRUE, FALSE))
        ELSE finalize_app_launch(env.ok, TitleOf(query), w1, FALSE, t)

\* the language model answers; OllamaClient turns its own failures into text
\* ask_llm dropping the stored results
ask_llm_forgets(w, prompt, env) ==
    Reply(Called([w EXCEPT !.st = clear_results(w.st)], Act("llm", prompt, ~env.down)),
          "llm", TRUE)

ask_llm(w, prompt, env) ==
    Reply(Called(w, Act("llm", prompt, ~env.down)), "llm", TRUE)

(***************************************************************************)
(* Tasks run through compile_and_run: SEARCH_LOCAL_CODE, SEARCH_WEB_CODE   *)
(* and OPEN_WEB_CODE.  A TaskResult is given by ok, the result list and    *)
(* the url of the opened page.                                             *)
(***************************************************************************)
TaskResult(ok, results, url) == [ok |-> ok, results |-> results, url |-> url]

TaskError == TaskResult(FALSE, <<>>, "")

\* tools.web.open_site: an empty url is refused, a page may redirect
open_site(url, env) ==
    [ok |-> url # "", url |-> IF env.final # "" THEN env.final ELSE url]

\* the task, with the calls it makes
run_task(intent, p, w, env) ==
    CASE intent = "search_local" ->
            [w |-> Called(w, Act("search_local", p.query, ~env.raise)),
             result |-> IF env.raise THEN TaskError
                        ELSE TaskResult(env.found # <<>>, env.found, "")]
      [] intent = "search_web" ->
            LET w1 == Called(w, Act("search_web", p.query, ~env.raise))
                first == env.found[1]
                opened == open_site(first, env)
            IN  IF env.raise THEN [w |-> w1, result |-> TaskError]
                ELSE IF env.found = <<>>
                THEN [w |-> w1, result |-> TaskResult(FALSE, <<>>, "")]
                ELSE IF ~p.open_first
                THEN [w |-> w1, result |-> TaskResult(TRUE, env.found, "")]
                ELSE IF first # "" /\ ~env.ok
                THEN [w |-> Called(w1, Act("open_site", first, FALSE)),
                      result |-> TaskError]
                ELSE [w |-> IF first = "" THEN w1
                            ELSE Called(w1, Act("open_site", first, TRUE)),
                      result |-> TaskResult(opened.ok, env.found, "")]
      [] intent = "open_web" ->
            LET opened == open_site(p.url, env)
            IN  IF p.url # "" /\ ~env.ok
                THEN [w |-> Called(w, Act("open_site", p.url, FALSE)),
                      result |-> TaskError]
                ELSE [w |-> IF p.url = "" THEN w
                            ELSE Called(w, Act("open_site", p.url, TRUE)),
                      result |-> TaskResult(opened.ok, <<>>, opened.url)]

\* format_response leaving the stored results when the task failed
format_response_keeps(intent, p, result, w, t) ==
    LET urls == filter_items(result.results)
    IN  IF ~result.ok THEN Reply(w, "task_failed", FALSE)
        ELSE IF intent = "search_local"
        THEN Turn([w EXCEPT !.st = set_results(w.st, result.results, "file", t)],
                  make_response("found", TRUE, result.results, TRUE, FALSE))
        ELSE IF intent = "search_web" /\ urls # <<>>
        THEN Turn([w EXCEPT !.st = set_results(w.st, urls, "web", t)],
                  make_response("done", TRUE, urls, TRUE, FALSE))
        ELSE Reply(w, "done", TRUE)

format_response(intent, p, result, w, t) ==
    LET urls == filter_items(result.results)
        url == IF result.url # "" THEN result.url ELSE p.url
    IN  IF ~result.ok
        THEN Reply(IF intent \in {"search_local", "search_web"}
                   THEN [w EXCEPT !.st = clear_results(w.st)] ELSE w,
                   "task_failed", FALSE)
        ELSE CASE intent = "search_local" ->
                    Turn([w EXCEPT !.st = set_results(w.st, result.results, "file", t)],
                         make_response("found", TRUE, result.results, TRUE, FALSE))
               [] intent = "search_web" ->
                    IF urls # <<>>
                    THEN Turn([w EXCEPT !.st = set_results(w.st, urls, "web", t)],
                              make_response("done", TRUE, urls, TRUE, FALSE))
                    ELSE Reply(w, "done", TRUE)
               [] intent = "open_web" ->
                    IF url # "" /\ ~p.from_context
                    THEN Reply([w EXCEPT !.st = set_results(w.st, <<url>>, "web", t)],
                               "done", TRUE)
                    ELSE IF p.from_context
                    THEN Reply([w EXCEPT !.st.last_updated = t], "done", TRUE)
                    ELSE Reply(w, "done", TRUE)

(***************************************************************************)
(* File operations.                                                        *)
(***************************************************************************)
DEFAULT_KIND == "txt"

\* _prepare_params: the path as FileManager.normalize gives it, as text;
\* NoPath when the command has none
prepare_path(intent, path) ==
    IF path # "" THEN Raw(TRUE, normalize(PathOf(path)))
    ELSE IF intent = "list_directory" THEN Raw(TRUE, default_root)
    ELSE NoPath

resolve_file_kind(raw, kind) ==
    IF Suffix(raw.parts) \in KnownExts THEN KIND_BY_EXTENSION(Suffix(raw.parts))
    ELSE IF kind \in FileKinds THEN kind
    ELSE IF kind \in DOMAIN FILE_KIND_ALIASES THEN FILE_KIND_ALIASES[kind]
    ELSE DEFAULT_KIND

\* Path.with_suffix on a path without suffix
with_suffix(raw, ext) ==
    [raw EXCEPT !.parts[Len(raw.parts)].ext = ext]

\* the FileManager call a file intent makes
file_call(intent, p, raw, f, confirmed, io) ==
    CASE intent = "create_file" -> create_file(f, raw, p.content, p.kind, confirmed, io)
      [] intent = "write_file" -> write_text(f, raw, p.content, confirmed, io)
      [] intent = "append_file" -> append_text(f, raw, p.content, confirmed, io)
      [] intent = "list_directory" -> list_directory(f, raw, confirmed, io)
      [] intent = "edit_file" ->
            LET file_kind == resolve_file_kind(raw, p.kind)
                target_path == IF Suffix(raw.parts) = ""
                               THEN with_suffix(raw, FILE_KIND_EXT[DEFAULT_KIND])
                               ELSE raw
            IN  CASE file_kind = "docx" -> edit_word(f, raw, p.content, confirmed, io)
                  [] file_kind = "xlsx" -> edit_excel(f, raw, p.content, confirmed, io)
                  [] file_kind = "pptx" -> edit_pptx(f, raw, p.content, confirmed, io)
                  [] p.mode = "write" -> write_text(f, target_path, p.content, confirmed, io)
                  [] OTHER -> append_text(f, target_path, p.content, confirmed, io)

\* the text of a listed name
NameOf(c) ==
    CASE c = Comp("a", ".txt") -> "a.txt"
      [] c = Comp("b", ".txt") -> "b.txt"
      [] c = Comp("n", "") -> "n"
      [] c = Comp("n", ".docx") -> "n.docx"
      [] c = Comp("n", ".xlsx") -> "n.xlsx"
      [] c = Comp("n", ".pptx") -> "n.pptx"

\* lines 1270-1309: the reply to the FileManager's result r
\* file_response asking for the confirmation with ok=true
file_response_ok_confirm(intent, w1, r_info) ==
    IF r_info.requires_confirmation
    THEN Turn(w1, make_response("confirm", TRUE, <<>>, FALSE, TRUE))
    ELSE Reply(w1, IF r_info.ok THEN "done" ELSE "operation_failed", r_info.ok)

file_response(intent, w1, r_info) ==
    LET items == [i \in 1..Len(r_info.items) |-> NameOf(r_info.items[i])]
    IN  IF r_info.requires_confirmation
        THEN Turn(w1, make_response("confirm", FALSE, <<>>, FALSE, TRUE))
        ELSE IF ~r_info.ok THEN Reply(w1, "operation_failed", FALSE)
        ELSE IF intent = "list_directory"
        THEN Turn(w1, make_response("listing", TRUE, items, items # <<>>, FALSE))
        ELSE Reply(w1, "done", TRUE)

\* the turn state after the FileManager call with result r
after_file_call(intent, w, r) ==
    file_response(intent,
                  Called([w EXCEPT !.fs = r.fs], Act(intent, StrOf(r.info.path), r.info.ok)),
                  r.info)

\* _prepare_params and _handle_file_operation; a command without path raises
\* ValueError, which is answered as an error
handle_file_operation(intent, p, w, confirmed, env) ==
    IF prepare_path(intent, p.path) = NoPath THEN Reply(w, "error", FALSE)
    ELSE after_file_call(intent, w,
                         file_call(intent, p, prepare_path(intent, p.path), w.fs,
                                   confirmed, env.io))

\* the generated text is one line; env.ok = FALSE is a model without answer
generated_response(w2, r_info, t) ==
    IF ~r_info.ok
    THEN Turn(w2, make_response("operation_failed", FALSE, <<>>, FALSE,
                                r_info.requires_confirmation))
    ELSE Turn([w2 EXCEPT !.st = set_results(w2.st, <<StrOf(r_info.path)>>, "file", t)],
              make_response("done", TRUE, <<>>, FALSE, FALSE))

after_generated_append(w1, r, t) ==
    generated_response(Called([w1 EXCEPT !.fs = r.fs],
                              Act("append_file", StrOf(r.info.path), r.info.ok)),
                       r.info, t)

handle_generate_append_txt(p, w, confirmed, env, t) ==
    IF p.path = "" THEN Reply(w, "no_file", FALSE)
    ELSE IF p.query = "" THEN Reply(w, "no_prompt", FALSE)
    ELSE IF env.raise
    THEN Reply(Called(w, Act("llm", p.query, FALSE)), "generate_failed", FALSE)
    ELSE IF ~env.ok THEN Reply(Called(w, Act("llm", p.query, TRUE)), "no_text", FALSE)
    ELSE after_generated_append(Called(w, Act("llm", p.query, ~env.down)),
                                append_text(w.fs, PathOf(p.path), <<"x">>, confirmed, env.io),
                                t)

(***************************************************************************)
(* Browsers.                                                               *)
(***************************************************************************)
browser_ids == <<"chrome", "edge", "firefox">>

browser_aliases == <<"chrome", "edge", "firefox", "yandex">>

\* the first candidate one of whose aliases the message contains
resolve_browser_choice(named, allowed) ==
    LET hits == SelectSeq(allowed, LAMBDA b : b \in named)
    IN  IF hits = <<>> THEN None ELSE hits[1]

\* launch_browser leaving the list of offered browsers after a launch
launch_browser_keeps_list(browser_id, w, env) ==
    LET w1 == Called(w, Act("launch", browser_id, env.ok))
    IN  IF browser_id \notin env.installed
        THEN Reply([w EXCEPT !.session.awaiting_browser_choice = FALSE,
                             !.session.available_browsers = <<>>],
                   "browser_unavailable", FALSE)
        ELSE IF env.ok
        THEN Reply([w1 EXCEPT !.session.preferred_browser = browser_id,
                              !.session.awaiting_browser_choice = FALSE],
                   "browser_opened", TRUE)
        ELSE Reply(w1, "browser_failed", FALSE)

launch_browser(browser_id, w, env) ==
    LET w1 == Called(w, Act("launch", browser_id, env.ok))
    IN  IF browser_id \notin env.installed
        THEN Reply([w EXCEPT !.session.awaiting_browser_choice = FALSE,
                             !.session.available_browsers = <<>>,
                             !.session.preferred_browser =
                                 IF @ = browser_id THEN None ELSE @],
                   "browser_unavailable", FALSE)
        ELSE IF env.ok
        THEN Reply([w1 EXCEPT !.session.preferred_browser = browser_id,
                              !.session.awaiting_browser_choice = FALSE,
                              !.session.available_browsers = <<>>],
                   "browser_opened", TRUE)
        ELSE Reply(w1, "browser_failed", FALSE)

\* handle_open_browser launching the first installed browser without asking
handle_open_browser_first(p, w, env) ==
    LET available == SelectSeq(browser_ids, LAMBDA b : b \in env.installed)
    IN  IF available = <<>>
        THEN Reply([w EXCEPT !.session.awaiting_browser_choice = FALSE,
                             !.session.available_browsers = <<>>],
                   "no_browser", FALSE)
        ELSE launch_browser(available[1], w, env)

handle_open_browser(p, w, env) ==
    LET initial_choice == resolve_browser_choice(p.utterance, browser_aliases)
        w1 == IF initial_choice # None
              THEN [w EXCEPT !.session.preferred_browser = initial_choice] ELSE w
        preferred == w1.session.preferred_browser
        w2 == IF preferred # None THEN [w1 EXCEPT !.session.preferred_browser = None]
              ELSE w1
        available == SelectSeq(browser_ids, LAMBDA b : b \in env.installed)
    IN  IF preferred # None /\ preferred \in env.installed
        THEN launch_browser(preferred, w1, env)
        ELSE IF available = <<>>
        THEN Reply([w2 EXCEPT !.session.awaiting_browser_choice = FALSE,
                              !.session.available_browsers = <<>>],
                   "no_browser", FALSE)
        ELSE IF Len(available) = 1 THEN launch_browser(available[1], w2, env)
        ELSE Reply([w2 EXCEPT !.session.awaiting_browser_choice = TRUE,
                              !.session.available_browsers = available],
                   "browser_question", FALSE)

(***************************************************************************)
(* Dispatch.                                                               *)
(***************************************************************************)
FileIntents == {"create_file", "write_file", "append_file", "edit_file",
                "move_path", "copy_path", "delete_path", "list_directory"}

TaskIntents == {"search_local", "search_web", "open_web"}

run_intent(intent, p, w, confirmed, env, t) ==
    CASE intent = "open_browser" -> handle_open_browser(p, w, env)
      [] intent = "close_app" -> handle_close_app(p, w, env)
      [] intent = "refresh_apps" -> handle_refresh_apps(w, env)
      [] intent = "open_app" -> handle_open_app(p, w, env, t)
      [] intent = "search_file" -> handle_search_file(p, w, env, t)
      [] intent = "open_file" -> handle_open_file(p, w, env, t)
      [] intent = "generate_append_txt" -> handle_generate_append_txt(p, w, confirmed, env, t)
      [] intent \in FileIntents -> handle_file_operation(intent, p, w, confirmed, env)
      [] intent \in TaskIntents ->
            LET task == run_task(intent, p, w, env)
            IN  format_response(intent, p, task.result, task.w, t)
      [] OTHER -> Reply(w, "unsupported", FALSE)

\* _handle_context_commands; handled = FALSE is the return of None
Handled(turn) == [handled |-> TRUE, turn |-> turn]

NotHandled(w) == [handled |-> FALSE, turn |-> Reply(w, None, FALSE)]

\* lines 800-810: the intent and parameters that open the item
context_intent(kind) ==
    CASE kind = "file" -> "open_file"
      [] kind = "web" -> "open_web"
      [] kind = "app" -> "open_app"
      [] OTHER -> None

context_params_as_new(kind, item) ==
    CASE kind = "file" -> [NoIntent EXCEPT !.path = item]
      [] kind = "web" -> [NoIntent EXCEPT !.url = item]
      [] kind = "app" -> [NoIntent EXCEPT !.name = item]
      [] OTHER -> NoIntent

context_params(kind, item) ==
    CASE kind = "file" -> [NoIntent EXCEPT !.path = item, !.from_context = TRUE]
      [] kind = "web" -> [NoIntent EXCEPT !.url = item, !.from_context = TRUE]
      [] kind = "app" -> [NoIntent EXCEPT !.name = item, !.from_context = TRUE]
      [] OTHER -> NoIntent

open_from_context_first(index, w, confirmed, env, t) ==
    IF index = NoIndex THEN Reply(w, "choose_range", FALSE)
    ELSE IF context_intent(w.st.last_kind) = None
    THEN Reply(w, "context_unavailable", FALSE)
    ELSE run_intent(context_intent(w.st.last_kind),
                    context_params(w.st.last_kind, w.st.last_results[1]),
                    w, confirmed, env, t)

open_from_context(index, w, confirmed, env, t) ==
    IF index = NoIndex THEN Reply(w, "choose_range", FALSE)
    ELSE IF context_intent(w.st.last_kind) = None
    THEN Reply(w, "context_unavailable", FALSE)
    ELSE run_intent(context_intent(w.st.last_kind),
                    context_params(w.st.last_kind, w.st.last_results[index + 1]),
                    w, confirmed, env, t)

handle_context_commands(m, w, confirmed, env, t) ==
    IF m.reset
    THEN Handled(Reply([w EXCEPT !.st = clear_results(w.st)], "context_cleared", TRUE))
    ELSE IF m.ctx = "" THEN NotHandled(w)
    ELSE IF w.st.last_results = <<>> THEN Handled(Reply(w, "no_results", FALSE))
    ELSE Handled(open_from_context(resolve_context_index(m.ctx, Len(w.st.last_results)),
                                   w, confirmed, env, t))

\* lines 729-730: results older than TTL are dropped
expire_at_ttl(s, t) ==
    IF s.last_results # <<>> /\ t - s.last_updated >= TTL THEN clear_results(s) ELSE s

expire(s, t) ==
    IF s.last_results # <<>> /\ t - s.last_updated > TTL THEN clear_results(s) ELSE s

\* lines 737-742: while a browser choice is awaited every message is taken
\* as the answer
browser_gate(ses, m) == ses.awaiting_browser_choice

\* lines 737-742: the awaited browser choice
answer_browser_choice(choice, w, env) ==
    IF choice # None THEN launch_browser(choice, w, env)
    ELSE Reply(w, "browser_question", FALSE)

\* every known browser is allowed, whatever was offered
allowed_browsers_all(ses) == browser_aliases

allowed_browsers(ses) ==
    IF ses.available_browsers # <<>> THEN ses.available_browsers ELSE browser_aliases

\* lines 758-764: the desktop listing phrase, or what infer returns
intent_of(m) ==
    IF m.desktop = "list"
    THEN [NoIntent EXCEPT !.intent = "list_directory", !.path = StrOf(get_desktop_path)]
    ELSE IF infer(m).intent = "open_browser"
    THEN [infer(m) EXCEPT !.utterance = m.browsers]
    ELSE infer(m)

\* lines 754-773: after the context commands declined the message
handle_intent(m, intent_data, w, confirmed, env, t) ==
    IF m.desktop = "path" THEN Reply(w, "desktop", TRUE)
    ELSE IF intent_data.intent = None THEN ask_llm(w, m.text, env)
    ELSE run_intent(intent_data.intent, intent_data, w, confirmed, env, t)

after_context(context_response, m, w, confirmed, env, t) ==
    IF context_response.handled THEN context_response.turn
    ELSE handle_intent(m, intent_of(m), w, confirmed, env, t)

\* lines 732-773, on the state w left by the expiry check
dispatch(m, w, confirmed_flag, env, t) ==
    IF browser_gate(w.session, m)
    THEN answer_browser_choice(
             resolve_browser_choice(m.browsers, allowed_browsers(w.session)), w, env)
    ELSE after_context(handle_context_commands(m, w, confirmed_flag, env, t),
                       m, w, confirmed_flag, env, t)

\* handle_message with the session's auto_confirm left out of the confirmed flag
handle_message_force_only(m, force_confirm, auto_confirm, w0, env, t) ==
    IF m.empty THEN Reply(w0, "empty", FALSE)
    ELSE dispatch(m, [w0 EXCEPT !.st = expire(w0.st, t)],
                  force_confirm \/ auto_confirm, env, t)

handle_message(m, force_confirm, auto_confirm, w0, env, t) ==
    IF m.empty THEN Reply(w0, "empty", FALSE)
    ELSE dispatch(m, [w0 EXCEPT !.st = expire(w0.st, t)],
                  force_confirm \/ auto_confirm \/ w0.session.auto_confirm, env, t)

(***************************************************************************)
(* A conversation turn.                                                    *)
(***************************************************************************)
RouterCall(m, force_confirm, auto_confirm, env) ==
    [api |-> "router", op |-> "handle_message", msg |-> m,
     force_confirm |-> force_confirm, auto_confirm |-> auto_confirm, env |-> env]

\* the operation of the turn, when it was answered with requires_confirmation
DeniedBy(m, turn) ==
    IF turn.resp.requires_confirmation THEN intent_of(m) ELSE NoIntent

HandleMessage(m, force_confirm, auto_confirm, env) ==
    \E turn \in {handle_message(m, force_confirm, auto_confirm,
                                W(fs, st, session, <<>>), env, now)} :
        /\ Fits(turn.w)
        /\ fs' = turn.w.fs
        /\ st' = turn.w.st
        /\ session' = turn.w.session
        /\ acts' = turn.w.acts
        /\ resp' = turn.resp
        /\ denied' = DeniedBy(m, turn)
        /\ call' = RouterCall(m, force_confirm, auto_confirm, env)
        /\ UNCHANGED <<sockets, sessions, session_states, info, got, now>>

(***************************************************************************)
(* Spec: a conversation.  The user sends searches, opens, context          *)
(* references, resets and browser commands while the clock advances; the   *)
(* environment answers each call in one of the ways listed for it.         *)
(***************************************************************************)
CtxTokens == {"0", "1", "2", "3", "ego", "poslednij"}

FileFinds == {<<>>, <<"/out/b.txt">>, <<"/out/b.txt", "/allow/a.txt">>}

WebFinds == {<<>>, <<"u1", "u2">>}

Failing == [Env0 EXCEPT !.ok = FALSE]

Raising == [Env0 EXCEPT !.raise = TRUE]

Down == [Env0 EXCEPT !.down = TRUE]

IoFails == [Env0 EXCEPT !.io = TRUE]

OpenEnvs == {Env0, Failing}

SearchEnvs(finds) == {[Env0 EXCEPT !.found = found] : found \in finds} \cup {Raising}

TwoBrowsers == {"chrome", "edge"}

AppEnvs ==
    {[Env0 EXCEPT !.installed = TwoBrowsers],
     [Env0 EXCEPT !.installed = TwoBrowsers, !.ok = FALSE],
     [Env0 EXCEPT !.found = <<"Chrome">>, !.confident = TRUE],
     [Env0 EXCEPT !.found = <<"Chrome">>, !.confident = TRUE, !.ok = FALSE],
     [Env0 EXCEPT !.found = <<"Chrome">>, !.confident = TRUE, !.none = TRUE],
     [Env0 EXCEPT !.found = <<"Chrome", "Chromium">>, !.installed = TwoBrowsers]}

BrowserEnvs ==
    {[Env0 EXCEPT !.installed = installed, !.ok = ok] :
        installed \in {{}, {"chrome"}, TwoBrowsers}, ok \in BOOLEAN}

UrlEnvs == {Env0, Failing, [Env0 EXCEPT !.final = "u2"]}

\* the messages of the conversation, each with the environments it can meet
Dialogue ==
    {<<MsgBlank, Env0>>, <<MsgReset, Env0>>, <<MsgChat("privet"), Env0>>,
     <<MsgChat("privet"), Down>>, <<MsgWrite("a.txt", <<"x">>), IoFails>>,
     <<MsgOpenFile("/allow/n"), Env0>>}
    \cup {<<MsgContext(token), env>> : token \in CtxTokens, env \in OpenEnvs}
    \cup {<<MsgContextIn("3", "chrome"), [Env0 EXCEPT !.installed = TwoBrowsers]>>}
    \cup {<<MsgShow("2"), env>> : env \in OpenEnvs}
    \cup {<<MsgOpenFile("/out/b.txt"), env>> : env \in OpenEnvs}
    \cup {<<MsgFindFile, env>> : env \in SearchEnvs(FileFinds)}
    \cup {<<MsgFindLocal, env>> : env \in SearchEnvs({<<>>, <<"/out/b.txt">>})}
    \cup {<<MsgLook, env>> : env \in SearchEnvs({<<"/out/b.txt">>})}
    \cup {<<MsgFileOrWeb, [Env0 EXCEPT !.found = <<"u1", "u2">>]>>}
    \cup {<<MsgFindWeb(open_first), env>> :
             open_first \in BOOLEAN, env \in SearchEnvs(WebFinds)}
    \cup {<<MsgFindWeb(TRUE), [Failing EXCEPT !.found = <<"u1", "u2">>]>>}
    \cup {<<MsgUrl, env>> : env \in UrlEnvs}
    \cup {<<MsgChrome, env>> : env \in AppEnvs}
    \cup {<<MsgEdge, [Env0 EXCEPT !.installed = TwoBrowsers]>>}
    \cup {<<MsgFirefox, [Env0 EXCEPT !.installed = TwoBrowsers]>>}
    \cup {<<MsgBrowser, env>> : env \in BrowserEnvs}

Say ==
    \E d \in Dialogue : HandleMessage(d[1], FALSE, FALSE, d[2])

Next ==
    \/ Tick
    \/ Say

Spec == InitAll /\ [][Next]_vars

(***************************************************************************)
(* SpecAll: SessionState.set_results and clear_results called directly     *)
(* between the turns of a conversation in which every call of the          *)
(* environment succeeds.                                                   *)
(***************************************************************************)
Succeeding == {d \in Dialogue : d[2].ok /\ ~d[2].raise /\ ~d[2].none}

SayAll ==
    \E d \in Succeeding : HandleMessage(d[1], FALSE, FALSE, d[2])

NextAll ==
    \/ Tick
    \/ SetResults
    \/ ClearResults
    \/ SayAll

SpecAll == InitAll /\ [][NextAll]_vars

(***************************************************************************)
(* SpecConfirm: file operations inside and outside the whitelist, sent     *)
(* with and without force_confirm and auto_confirm, the replies "da" and   *)
(* "net", and the auto-confirm switch of the front ends.                   *)
(***************************************************************************)
FileMessages ==
    {MsgWrite("/out/b.txt", <<>>), MsgWrite("a.txt", <<"x">>),
     MsgAppend("/out/b.txt", <<"x">>), MsgCreate("/out/n", "docx", <<>>),
     MsgCreate("a.txt", None, <<"x">>), MsgEdit("/out/b.txt", None, None, <<>>),
     MsgList("/out"), MsgList("/allow"), MsgDesktop("list"), MsgDesktop("path"),
     MsgGenerate("/out/b.txt", "kotiki"), MsgGenerate("a.txt", "")}

ConfirmDialogue ==
    {<<m, env>> : m \in FileMessages, env \in {Env0, IoFails}}
    \cup {<<MsgGenerate("a.txt", "kotiki"), env>> :
             env \in {Env0, Failing, Raising, Down}}
    \cup {<<MsgChat("da"), Env0>>, <<MsgChat("net"), Env0>>, <<MsgBlank, Env0>>}
    \cup {<<MsgFindFile, [Env0 EXCEPT !.found = <<"/out/b.txt">>]>>}

SayConfirm ==
    \E d \in ConfirmDialogue, force_confirm \in BOOLEAN, auto_confirm \in BOOLEAN :
        HandleMessage(d[1], force_confirm, auto_confirm, d[2])

\* main.chat and agent_cli.run_cli switch the session's auto_confirm
SetAutoConfirm ==
    \E value \in BOOLEAN :
        /\ session' = [session EXCEPT !.auto_confirm = value]
        /\ call' = [NoCall EXCEPT !.api = "session", !.op = "auto_confirm"]
        /\ UNCHANGED <<sockets, sessions, session_states, fs, info, st, got, now, resp, acts, denied>>

NextConfirm ==
    \/ SetAutoConfirm
    \/ SayConfirm

SpecConfirm == InitAll /\ [][NextConfirm]_vars

(***************************************************************************)
(* Properties of the confirmation dialogue (SpecConfirm).                  *)
(***************************************************************************)
\* the filesystem after the operation d was carried out with confirmation
Executed(d, f) ==
    file_call(d.intent, d, prepare_path(d.intent, d.path), f, TRUE, FALSE).fs

Affirmative == {"da"}

Negative == {"net"}

\* C2: after handle_message has answered an operation with
\* requires_confirmation, the next message that is the affirmative reply or
\* carries force_confirm executes that operation and clears the pending
\* action of the session.
C2_AffirmativeExecutesPending ==
    [][(/\ denied.intent \in FileIntents
        /\ call'.api = "router"
        /\ call'.msg.text \in Affirmative \/ call'.force_confirm
        /\ ~call'.env.io)
       => (/\ fs' = Executed(denied, fs)
           /\ ~resp'.requires_confirmation
           /\ session'.pending = None)]_vars

\* C3: while a confirmation is pending, a message that is neither the
\* affirmative nor the negative reply and is sent without confirmation
\* flags leaves the pending action unchanged, triggers no action of its own
\* and is answered with the request to confirm.
C3_OtherMessagesRePrompt ==
    [][(/\ denied.intent \in FileIntents
        /\ call'.api = "router"
        /\ ~call'.msg.empty
        /\ call'.msg.text \notin Affirmative \cup Negative
        /\ ~call'.force_confirm /\ ~call'.auto_confirm /\ ~session.auto_confirm)
       => (/\ session'.pending = session.pending
           /\ denied' = denied
           /\ acts' = <<>>
           /\ fs' = fs
           /\ st' = st
           /\ resp'.requires_confirmation)]_vars

(***************************************************************************)
(* Properties of the dialogue context (Spec, SpecAll).                     *)
(***************************************************************************)
\* the position, counted from 1, that a reference names in a list of n items
Referred(token, n) ==
    CASE token = "0" -> 0
      [] token = "1" -> 1
      [] token = "2" -> 2
      [] token = "3" -> 3
      [] token = "ego" -> 1
      [] token = "poslednij" -> n

InRange(token, n) == 1 <= Referred(token, n) /\ Referred(token, n) <= n

Numbers == {"0", "1", "2", "3"}

\* the call that opens an item of the given kind
Opener(kind) ==
    CASE kind = "file" -> "open_path"
      [] kind = "web" -> "open_site"
      [] kind = "app" -> "launch"

\* the stored results are older than 900 seconds
Stale == st.last_results # <<>> /\ now - st.last_updated > 900

\* the next step is a turn with a context reference
ContextTurn == call'.api = "router" /\ call'.msg.ctx # ""

\* a browser choice is awaited and the message of the turn names a browser
AnswersBrowser == session.awaiting_browser_choice /\ call'.msg.browsers # {}

\* C4: when a successful search, or a successful context reference after
\* it, has left the non-empty list R stored and the next message is a
\* context reference that resolves to a position i within range, the one
\* item opened is R[i], and R stays stored, so the same reference opens the
\* same item again.
C4_ContextOpensReferredItem ==
    [][(/\ ContextTurn
        /\ call.api = "router"
        /\ call.msg.ctx # ""
           \/ infer(call.msg).intent \in {"search_file", "search_local", "search_web"}
        /\ resp.ok
        /\ st.last_results # <<>>
        /\ InRange(call'.msg.ctx, Len(st.last_results)))
       => (/\ Len(acts') = 1
           /\ acts'[1].a = Opener(st.last_kind)
           /\ acts'[1].arg = st.last_results[Referred(call'.msg.ctx, Len(st.last_results))]
           /\ st'.last_results = st.last_results
           /\ st'.last_kind = st.last_kind)]_vars

\* the second of two pages found was opened by "otkroj 2"
C4_Witness ==
    /\ call.api = "router"
    /\ call.msg.ctx = "2"
    /\ resp.ok
    /\ st.last_results = <<"u1", "u2">>
    /\ st.last_kind = "web"
    /\ acts = <<Act("open_site", "u2", TRUE)>>

\* C5 as stated: a context reference whose number lies outside
\* [1, len(last_results)] returns ok = false, opens or launches nothing and
\* leaves last_results, last_kind and last_updated unchanged.
C5_OutOfRangeChangesNothing ==
    [][(/\ ContextTurn
        /\ call'.msg.ctx \in Numbers
        /\ ~InRange(call'.msg.ctx, Len(st.last_results)))
       => (/\ ~resp'.ok
           /\ acts' = <<>>
           /\ st' = st)]_vars

\* C5 amended: such a reference leaves last_results, last_kind and
\* last_updated unchanged unless the stored results are older than 900
\* seconds, which are cleared; it returns ok = false and opens or launches
\* nothing unless a browser choice is awaited and the message names a
\* browser.
C5_OutOfRangeOnlyExpires ==
    [][(/\ ContextTurn
        /\ call'.msg.ctx \in Numbers
        /\ ~InRange(call'.msg.ctx, Len(st.last_results)))
       => (/\ st' = IF Stale THEN SessionState0 ELSE st
           /\ ~AnswersBrowser => (~resp'.ok /\ acts' = <<>>))]_vars

\* "otkroj 3" was refused while two fresh results are stored
C5_Witness ==
    /\ call.api = "router"
    /\ call.msg.ctx = "3"
    /\ call.msg.browsers = {}
    /\ resp.reply = "choose_range"
    /\ Len(st.last_results) = 2
    /\ acts = <<>>

\* C6 as stated: after a reset-context command last_results is empty and
\* last_kind is "none", and a context reference that meets no stored results
\* returns ok = false with the no-stored-results reply and opens nothing.
C6_ResetClearsContext ==
    [][(call'.api = "router")
       => (/\ call'.msg.reset
               => (st'.last_results = <<>> /\ st'.last_kind = "none")
           /\ (call'.msg.ctx # "" /\ st.last_results = <<>>)
               => (~resp'.ok /\ resp'.reply = "no_results" /\ acts' = <<>>))]_vars

\* C6 amended: the same, for messages that arrive while no browser choice
\* is awaited.
C6_ResetClearsContextUnlessAwaiting ==
    [][(call'.api = "router" /\ ~session.awaiting_browser_choice)
       => (/\ call'.msg.reset
               => (st'.last_results = <<>> /\ st'.last_kind = "none")
           /\ (call'.msg.ctx # "" /\ st.last_results = <<>>)
               => (~resp'.ok /\ resp'.reply = "no_results" /\ acts' = <<>>))]_vars

\* a reset was carried out
C6_Witness ==
    /\ call.api = "router"
    /\ call.msg.reset
    /\ resp.reply = "context_cleared"
    /\ st = SessionState0
    /\ now > StartTime

\* set_results was called with a kind and without a non-empty item
C7_Witness ==
    /\ call.api = "state"
    /\ call.op = "set_results"
    /\ call.kind = "file"
    /\ st.last_results = <<>>
    /\ resp.reply = "found"

\* C8 as stated: a context reference that arrives more than 900 seconds
\* after last_updated finds the stored results cleared, returns ok = false
\* and opens nothing; one that arrives 900 seconds or less after it finds
\* them stored.
C8_ResultsExpireAfterTTL ==
    [][ContextTurn
       => (/\ Stale
               => (st' = SessionState0 /\ ~resp'.ok /\ acts' = <<>>)
           /\ (st.last_results # <<>> /\ now - st.last_updated <= 900)
               => (/\ st'.last_results = st.last_results
                   /\ st'.last_kind = st.last_kind
                   /\ resp'.reply # "no_results"))]_vars

\* C8 amended: the same, except that the reference returns ok = false and
\* opens nothing only unless a browser choice is awaited and the message
\* names a browser.
C8_ResultsExpireUnlessBrowserNamed ==
    [][ContextTurn
       => (/\ Stale
               => (/\ st' = SessionState0
                   /\ ~AnswersBrowser => (~resp'.ok /\ acts' = <<>>))
           /\ (st.last_results # <<>> /\ now - st.last_updated <= 900)
               => (/\ st'.last_results = st.last_results
                   /\ st'.last_kind = st.last_kind
                   /\ resp'.reply # "no_results"))]_vars

\* a reference was answered from results stored exactly 900 seconds before
C8_Witness ==
    /\ call.api = "router"
    /\ call.msg.ctx = "1"
    /\ resp.ok
    /\ st.last_kind = "web"
    /\ now - StartTime = 900
    /\ acts = <<Act("open_site", st.last_results[1], TRUE)>>

\* the result set a successful search or open of the turn c has to store
ResultSet(c) ==
    CASE infer(c.msg).intent \in {"search_file", "search_local", "search_web"} ->
            c.env.found
      [] infer(c.msg).intent = "open_file" -> <<c.msg.path>>
      [] infer(c.msg).intent = "open_web" ->
            <<IF c.env.final # "" THEN c.env.final ELSE c.msg.url>>

ResultKind(intent) ==
    CASE intent \in {"search_file", "search_local", "open_file"} -> "file"
      [] intent \in {"search_web", "open_web"} -> "web"
      [] intent = "open_app" -> "app"

\* C10: after a successful file search, local search, web search, open of
\* an explicit path, open of a URL or launch of an application that is not
\* a context reference, last_results holds the result set of the operation
\* and last_kind is the matching kind.
C10_SuccessStoresResults ==
    [][(/\ call'.api = "router"
        /\ ~session.awaiting_browser_choice
        /\ ~call'.msg.empty /\ ~call'.msg.reset /\ call'.msg.ctx = ""
        /\ call'.msg.desktop = ""
        /\ infer(call'.msg).intent \in
               {"search_file", "search_local", "search_web", "open_web", "open_app"}
           \/ (infer(call'.msg).intent = "open_file" /\ call'.msg.path # "")
        /\ resp'.ok)
       => (/\ st'.last_kind = ResultKind(infer(call'.msg).intent)
           /\ st'.last_updated = now
           /\ IF infer(call'.msg).intent = "open_app"
              THEN Len(st'.last_results) = 1 /\ Len(acts') = 1
                   /\ acts'[1].a = "launch"
              ELSE st'.last_results = ResultSet(call'))]_vars

\* the next step is a context reference that is carried out and succeeds
SuccessfulReference ==
    ContextTurn /\ ~session.awaiting_browser_choice /\ resp'.ok

\* C11: a successful context reference leaves last_results and last_kind
\* as they were, for stored results of kind file, web and app.
C11_ReferenceKeepsResults ==
    [][SuccessfulReference
       => (/\ st'.last_results = st.last_results
           /\ st'.last_kind = st.last_kind
           /\ Len(acts') = 1
           /\ acts'[1].a = Opener(st.last_kind))]_vars

\* the second of two applications offered was launched by "otkroj 2"
C11_Witness ==
    /\ call.api = "router"
    /\ call.msg.ctx = "2"
    /\ resp.ok
    /\ st.last_kind = "app"
    /\ Len(st.last_results) = 2
    /\ acts = <<Act("launch", st.last_results[2], TRUE)>>

\* C12: a successful context reference sets last_updated to the time of
\* the call, for stored results of kind file, web and app.
C12_ReferenceRefreshesResults ==
    [][SuccessfulReference => st'.last_updated = now]_vars

\* C13: a failure of a collaborator during a turn (file I/O error, launch
\* failure, web-search or language-model error) is reported as an envelope
\* with ok = false.
C13_FailuresAreReported ==
    [][(/\ call'.api = "router"
        /\ \E i \in 1..Len(acts') : ~acts'[i].ok)
       => ~resp'.ok]_vars

(***************************************************************************)
(* SpecInfer: IntentInferencer.infer applied to utterances.  An utterance  *)
(* is given by the recognizers whose pattern it matches, at most           *)
(* MaxMatches of them, and by the target it names.                         *)
(***************************************************************************)
Rules == {InferRules[i] : i \in 1..Len(InferRules)}

Utterances ==
    {[NoMsg EXCEPT !.text = "utterance", !.match = match, !.query = query,
                   !.path = "a.txt", !.name = "chrome", !.url = "u1"] :
        match \in {ms \in SUBSET Rules : Cardinality(ms) <= MaxMatches},
        query \in {"2", "kotiki"}}

Infer ==
    \E m \in Utterances :
        /\ got' = infer(m)
        /\ call' = [NoCall EXCEPT !.api = "infer", !.op = m]
        /\ UNCHANGED <<sockets, sessions, session_states, fs, info, st, session, now, resp, acts, denied>>

NextInfer ==
    \/ Infer

SpecInfer == InitAll /\ [][NextInfer]_vars

\* the utterance makes the recognizer return a result
Recognizes(rule, m) ==
    /\ rule \in m.match
    /\ rule = "open_generic" => m.query = "2"

\* the intent a recognizer returns
IntentFor(rule) ==
    CASE rule = "refresh" -> "refresh_apps"
      [] rule = "create" -> "create_file"
      [] rule = "edit" -> "edit_file"
      [] rule = "generate" -> "generate_append_txt"
      [] rule = "write" -> "write_file"
      [] rule = "append" -> "append_file"
      [] rule = "list" -> "list_directory"
      [] rule = "open_file" -> "open_file"
      [] rule = "close_app" -> "close_app"
      [] rule = "open_browser" -> "open_browser"
      [] rule = "open_app" -> "open_app"
      [] rule = "search_file" -> "search_file"
      [] rule = "open_generic" -> "open_file"
      [] rule = "url" -> "open_web"
      [] rule = "web_search" -> "search_web"
      [] rule = "local" -> "search_local"

\* the first recognizer of the order that the utterance matches decides
FirstMatchWins(order) ==
    call.api = "infer"
    => \A i \in 1..Len(order) :
          (/\ Recognizes(order[i], call.op)
           /\ \A j \in 1..(i - 1) : ~Recognizes(order[j], call.op))
          => got.intent = IntentFor(order[i])

\* C14 as stated: infer returns the intent of the first recognizer that
\* matches, in the order create > write > append > list-directory >
\* open-file > close-app > open-browser > open-app > search-file >
\* open-generic > url > web search > local search.
C14_FirstMatchInStatedOrder ==
    FirstMatchWins(<<"create", "write", "append", "list", "open_file", "close_app",
                     "open_browser", "open_app", "search_file", "open_generic",
                     "url", "web_search", "local">>)

\* C14 amended: the order is refresh-apps > create > edit > generate-append >
\* write > append > list-directory > open-file > close-app > open-browser >
\* open-app > search-file > open-generic > url > web search > local search.
C14_FirstMatchInCodeOrder ==
    FirstMatchWins(<<"refresh", "create", "edit", "generate", "write", "append",
                     "list", "open_file", "close_app", "open_browser", "open_app",
                     "search_file", "open_generic", "url", "web_search", "local">>)

\* an utterance that the edit and the append recognizers match was taken
\* as an edit
C14_Witness ==
    /\ call.api = "infer"
    /\ call.op.match = {"edit", "append"}
    /\ got.intent = "edit_file"

----------------------------------------------------------------------------
\* The confirmed flag of one handle_message call

\* the message asks to write to a path outside the whitelist
WritesOutside(m) == intent_of(m).intent = "write_file" /\ m.path = "/out/b.txt"

\* the call carried a confirmation through one of its three sources
ConfirmedCall(c, s) == c.force_confirm \/ c.auto_confirm \/ s.auto_confirm

\* C15: a write to a path outside the whitelist is performed within the call,
\* with requires_confirmation false, when force_confirm, the auto_confirm
\* argument or session.auto_confirm is true; when all three are false the
\* file system is left as it was.
C15_AnyConfirmationSourceWrites ==
    [][(/\ call'.api = "router"
        /\ WritesOutside(call'.msg)
        /\ ~call'.env.io)
       => IF ConfirmedCall(call', session)
          THEN /\ fs' = [fs EXCEPT ![NodeB] = File(call'.msg.content)]
               /\ resp'.ok
               /\ ~resp'.requires_confirmation
          ELSE fs' = fs]_vars

C15_Witness ==
    /\ call.api = "router"
    /\ WritesOutside(call.msg)
    /\ ~call.force_confirm /\ ~call.auto_confirm /\ session.auto_confirm
    /\ resp.ok /\ ~resp.requires_confirmation
    /\ fs[NodeB] = File(<<>>)

----------------------------------------------------------------------------
\* The WebSocket front end: ConnectionManager and websocket_endpoint (main.py)

MaxSockets == 3

WebSockets == 1..MaxSockets

\* the slots of the dataclass AgentSession; an attribute outside them cannot
\* be assigned
AgentSessionSlots ==
    {"auto_confirm", "model", "pending", "session_id", "preferred_browser",
     "awaiting_browser_choice", "available_browsers"}

\* one key for every connection
id_shared(websocket) == 1

\* id(websocket): different for two objects alive at the same time
id(websocket) == websocket

\* dict[key] = value and dict.pop(key, None)
Put(dict, key, value) ==
    [k \in DOMAIN dict \cup {key} |-> IF k = key THEN value ELSE dict[k]]

Pop(dict, key) == [k \in DOMAIN dict \ {key} |-> dict[k]]

\* the JSON payloads of a client: the message and the optional flags
Payloads ==
    {[message |-> message, auto_present |-> ap, auto_value |-> av,
      force_present |-> fp, force_value |-> fv] :
        message \in {MsgFindFile, MsgContext("1"), MsgChat("privet")},
        ap \in BOOLEAN, av \in BOOLEAN, fp \in BOOLEAN, fv \in BOOLEAN}

NoPayload ==
    [message |-> NoMsg, auto_present |-> FALSE, auto_value |-> FALSE,
     force_present |-> FALSE, force_value |-> FALSE]

WSCall(op, websocket, data) ==
    [api |-> "websocket", op |-> op, ws |-> websocket, data |-> data]

\* ConnectionManager.connect
connect(websocket) ==
    /\ sessions' = Put(sessions, id(websocket), AgentSession0)
    /\ session_states' = Put(session_states, id(websocket), SessionState0)

\* ConnectionManager.disconnect
disconnect(websocket) ==
    /\ sessions' = Pop(sessions, id(websocket))
    /\ session_states' = Pop(session_states, id(websocket))

\* a client opens a connection: websocket_endpoint starts
Connect ==
    \E websocket \in WebSockets \ sockets :
        /\ sockets' = sockets \cup {websocket}
        /\ connect(websocket)
        /\ call' = WSCall("connect", websocket, NoPayload)
        /\ UNCHANGED <<fs, info, st, got, session, now, resp, acts, denied>>

\* receive_text raises WebSocketDisconnect
Disconnect ==
    \E websocket \in sockets :
        /\ sockets' = sockets \ {websocket}
        /\ disconnect(websocket)
        /\ call' = WSCall("disconnect", websocket, NoPayload)
        /\ UNCHANGED <<fs, info, st, got, session, now, resp, acts, denied>>

\* a payload that is not JSON is answered with an error and the loop goes on
ReceiveMalformed ==
    \E websocket \in sockets :
        /\ resp' = [NoResp EXCEPT !.reply = "bad json"]
        /\ call' = WSCall("malformed", websocket, NoPayload)
        /\ UNCHANGED <<fs, info, st, got, session, now, acts, denied,
                       sockets, sessions, session_states>>

\* a JSON payload: the flags are stored, session.streaming_enabled is
\* assigned and the message goes to handle_message with the connection's
\* AgentSession and SessionState. The assignment raises AttributeError when
\* the attribute is no slot of AgentSession; the handler then closes the
\* socket and disconnects it.
Receive ==
    \E websocket \in sockets, data \in Payloads :
        /\ call' = WSCall("receive", websocket, data)
        /\ IF "streaming_enabled" \in AgentSessionSlots
           THEN \E turn \in {handle_message(
                       data.message,
                       data.force_present /\ data.force_value,
                       data.auto_present /\ data.auto_value,
                       W(fs, session_states[id(websocket)],
                         IF data.auto_present
                         THEN [sessions[id(websocket)] EXCEPT
                                   !.auto_confirm = data.auto_value]
                         ELSE sessions[id(websocket)], <<>>),
                       Env0, now)} :
                    /\ Fits(turn.w)
                    /\ fs' = turn.w.fs
                    /\ sessions' = [sessions EXCEPT ![id(websocket)] = turn.w.session]
                    /\ session_states' =
                           [session_states EXCEPT ![id(websocket)] = turn.w.st]
                    /\ acts' = turn.w.acts
                    /\ resp' = turn.resp
                    /\ UNCHANGED <<info, st, got, session, now, denied, sockets>>
           ELSE /\ sockets' = sockets \ {websocket}
                /\ disconnect(websocket)
                /\ UNCHANGED <<fs, info, st, got, session, now, resp, acts, denied>>

NextWS ==
    \/ Connect
    \/ Disconnect
    \/ ReceiveMalformed
    \/ Receive

SpecWS == InitAll /\ [][NextWS]_vars

----------------------------------------------------------------------------
\* The choice of a browser

\* the elements of a sequence
Range(seq) == {seq[i] : i \in 1..Len(seq)}

\* the browsers the environment of a call has installed
Installed(c) == {b \in Range(browser_ids) : b \in c.env.installed}

\* the calls to launch an application made by the last turn
Launches(a) == SelectSeq(a, LAMBDA x : x.a = "launch")

\* the call asks to open a browser, names none, and the session has no
\* preferred browser that is installed
AsksForBrowser ==
    /\ call'.api = "router"
    /\ ~session.awaiting_browser_choice
    /\ intent_of(call'.msg).intent = "open_browser"
    /\ call'.msg.browsers = {}
    /\ session.preferred_browser \notin Installed(call')

\* the call answers the question with the name of one offered browser that
\* is installed and starts
NamesBrowser(b) ==
    /\ call'.api = "router"
    /\ session.awaiting_browser_choice
    /\ ~call'.msg.empty
    /\ call'.msg.browsers = {b}
    /\ b \in Range(session.available_browsers)
    /\ b \in Installed(call')
    /\ call'.env.ok

----------------------------------------------------------------------------
\* The explicit search of a file

\* the call is an explicit file search whose backend answers
ExplicitFileSearch ==
    /\ call'.api = "router"
    /\ ~call'.msg.empty /\ ~call'.msg.reset
    /\ call'.msg.ctx = "" /\ call'.msg.desktop = ""
    /\ infer(call'.msg).intent = "search_file"
    /\ ~call'.env.raise

\* the backend was called once and nothing else, the found paths are the
\* items of the answer and the stored results, of kind file
ListedOnly ==
    /\ acts' = <<Act("search_files", infer(call'.msg).query, TRUE)>>
    /\ resp'.has_items
    /\ resp'.items = call'.env.found
    /\ st'.last_results = call'.env.found
    /\ call'.env.found # <<>> => st'.last_kind = "file"

----------------------------------------------------------------------------
\* A file request without a verb of search

\* the call is a file request that infer takes for a local search, and the
\* backend finds something
ImplicitFileRequest ==
    /\ call'.api = "router"
    /\ ~session.awaiting_browser_choice
    /\ ~call'.msg.empty /\ ~call'.msg.reset
    /\ call'.msg.ctx = "" /\ call'.msg.desktop = ""
    /\ call'.msg = MsgLook
    /\ call'.env.found # <<>>
    /\ ~call'.env.raise

\* C19: a file request that is no explicit search command opens the best
\* match and stores the found paths as file-kind results.
C19_ImplicitFileRequestOpens ==
    [][ImplicitFileRequest
       => /\ \E i \in 1..Len(acts') :
                acts'[i].a = "open_path" /\ acts'[i].arg = call'.env.found[1]
          /\ st'.last_results = call'.env.found
          /\ st'.last_kind = "file"]_vars

----------------------------------------------------------------------------
\* An utterance that is a file request and a web request alike

\* the utterance carries a file hint and a phrase of web search: both the
\* recognizer of web search and the one of local search match it, and no
\* earlier one
FileAndWeb(m) == m = MsgFileOrWeb

\* C20: an utterance that is comparably a file request and a web request is
\* answered without any action: nothing is searched, opened or launched, and
\* the session and the dialogue state stay as they were.
C20_AmbiguousTakesNoAction ==
    [][(/\ call'.api = "router"
        /\ ~session.awaiting_browser_choice
        /\ ~call'.msg.empty /\ ~call'.msg.reset
        /\ call'.msg.ctx = "" /\ call'.msg.desktop = ""
        /\ FileAndWeb(call'.msg))
       => /\ acts' = <<>>
          /\ session' = session
          /\ st' = expire(st, now)
          /\ fs' = fs]_vars

----------------------------------------------------------------------------
\* The chat fallback

\* the call carries an utterance that no recognizer, context command or
\* desktop phrase matches, and the language model answers
Unmatched ==
    /\ call'.api = "router"
    /\ ~call'.msg.empty /\ ~call'.msg.reset
    /\ call'.msg.ctx = "" /\ call'.msg.desktop = ""
    /\ call'.msg.match = {}
    /\ ~call'.env.down

\* the turn is the model's reply and nothing else
ChatOnly ==
    /\ resp'.reply = "llm" /\ resp'.ok /\ ~resp'.requires_confirmation
    /\ acts' = <<Act("llm", call'.msg.text, TRUE)>>
    /\ fs' = fs
    /\ session' = session

\* C21 as stated: an unmatched utterance is answered by the language model
\* with ok=true, nothing is searched, opened or written, and last_results,
\* last_kind and the AgentSession are unchanged.
C21_UnmatchedGoesToChat ==
    [][Unmatched
       => /\ ChatOnly
          /\ st'.last_results = st.last_results
          /\ st'.last_kind = st.last_kind]_vars

\* C21 amended: it is so unless the session awaits the choice of a browser,
\* and the stored results are unchanged unless they are older than the TTL,
\* in which case they are cleared.
C21_UnmatchedGoesToChatUnlessAwaiting ==
    [][(Unmatched /\ ~session.awaiting_browser_choice)
       => /\ ChatOnly
          /\ st' = IF Stale THEN SessionState0 ELSE st]_vars

C21_Witness ==
    /\ call.api = "router"
    /\ call.msg = MsgChat("privet")
    /\ resp.reply = "llm" /\ resp.ok
    /\ acts = <<Act("llm", "privet", TRUE)>>
    /\ st.last_results = <<"u1", "u2">>
    /\ st.last_kind = "web"

----------------------------------------------------------------------------
\* The life of a connection

\* C22: a well-formed message received on an open connection leaves the
\* connection open and its session registered.
C22_MessageKeepsConnection ==
    [][(call'.api = "websocket" /\ call'.op = "receive")
       => /\ call'.ws \in sockets'
          /\ id(call'.ws) \in DOMAIN sessions'
          /\ id(call'.ws) \in DOMAIN session_states']_vars

----------------------------------------------------------------------------
\* Text files: write_text and append_text on texts of two characters

MaxText == 3

\* the texts given to one call
Chunks == {<<>>, <<"x">>, <<"y">>}

TextCall(op, raw, content, confirmed, io) ==
    [api |-> "fm", op |-> op, raw |-> raw, content |-> content,
     confirmed |-> confirmed, io |-> io]

TextStep(r, c) ==
    /\ \A p \in Nodes : Len(r.fs[p].c) <= MaxText
    /\ fs' = r.fs
    /\ info' = r.info
    /\ call' = c
    /\ UNCHANGED <<sockets, sessions, session_states, st, got, session, now, resp,
                   acts, denied>>

TextWrite ==
    \E raw \in FileRaws, content \in Chunks, confirmed, io \in BOOLEAN :
        TextStep(write_text(fs, raw, content, confirmed, io),
                 TextCall("write_text", raw, content, confirmed, io))

TextAppend ==
    \E raw \in FileRaws, content \in Chunks, confirmed, io \in BOOLEAN :
        TextStep(append_text(fs, raw, content, confirmed, io),
                 TextCall("append_text", raw, content, confirmed, io))

NextText ==
    \/ TextWrite
    \/ TextAppend

SpecText == InitAll /\ [][NextText]_vars

\* the text a file holds; none when there is no such file
TextOf(f, path) == IF is_file(f, path) THEN f[path].c ELSE <<>>

\* C23: on a text file path on which the operation is allowed, write_text
\* leaves exactly the given content and append_text leaves the previous
\* content followed by the given content (the given content alone when the
\* file did not exist); so write(c0), append(c1), ..., append(cn) leaves
\* c0 c1 ... cn.
C23_WriteReplacesAppendExtends ==
    [][(/\ call'.api = "fm"
        /\ call'.op \in {"write_text", "append_text"}
        /\ is_allowed(resolve_path(call'.raw, None)) \/ call'.confirmed
        /\ ~call'.io)
       => /\ info'.ok
          /\ fs'[resolve_path(call'.raw, None)] =
                File(IF call'.op = "write_text" THEN call'.content
                     ELSE TextOf(fs, resolve_path(call'.raw, None)) \o call'.content)
          /\ \A p \in FileNodes \ {resolve_path(call'.raw, None)} : fs'[p] = fs[p]]_vars

C23_Witness ==
    /\ call.api = "fm"
    /\ call.op = "append_text"
    /\ call.content = <<"y">>
    /\ info.ok
    /\ fs[resolve_path(call.raw, None)] = File(<<"x", "y">>)

----------------------------------------------------------------------------
\* The content of a create, write or append command: _extract_content
\*
\* An utterance is a sequence of tokens: "cmd" is the command with its path,
\* "w" a word, "colon" a colon followed by a blank, "dq" and "sq" the double
\* and the single quote, "lg" and "rg" the guillemets, and the words that
\* introduce a content: "s_tekstom", "so_soderzhimym", "s_soderzhaniem",
\* "kontent", "tekst".

MaxInner == 4

SeqsUpTo(S, n) == UNION {[1..k -> S] : k \in 0..n}

\* the closing quote of an opening one
Closing(q) == CASE q = "dq" -> "dq" [] q = "sq" -> "sq" [] q = "lg" -> "rg"

\* the quoted alternatives "[^"]*", <<.+?>> and '[^']*' tried at position j:
\* the position of the closing quote, 0 when none matches there
QuotedFrom(msg, j) ==
    IF j > Len(msg) \/ msg[j] \notin {"dq", "sq", "lg"} THEN 0
    ELSE LET first == IF msg[j] = "lg" THEN j + 2 ELSE j + 1
             ends == {k \in first..Len(msg) : msg[k] = Closing(msg[j])}
         IN  IF ends = {} THEN 0
             ELSE CHOOSE k \in ends : \A other \in ends : k <= other

\* the tokens in which each pattern finds its word; "tekst(om)?" is found in
\* "s tekstom" too
QuotedPatterns ==
    <<{"s_tekstom"}, {"so_soderzhimym"}, {"s_soderzhaniem"}, {"kontent"},
      {"tekst", "s_tekstom"}>>

RestPatterns == <<{"s_tekstom"}, {"kontent"}, {"tekst", "s_tekstom"}>>

\* re.search of a pattern with a quoted value: the leftmost match, as the
\* positions of the value; <<0, 0>> when the pattern does not match
SearchQuoted(msg, words) ==
    LET hits == {i \in 1..Len(msg) : msg[i] \in words /\ QuotedFrom(msg, i + 1) # 0}
    IN  IF hits = {} THEN <<0, 0>>
        ELSE LET i == CHOOSE h \in hits : \A other \in hits : h <= other
             IN  <<i + 1, QuotedFrom(msg, i + 1)>>

\* re.search of a pattern whose value is the rest of the message
SearchRest(msg, words) ==
    LET hits == {i \in 1..(Len(msg) - 1) : msg[i] \in words}
    IN  IF hits = {} THEN <<0, 0>>
        ELSE <<(CHOOSE h \in hits : \A other \in hits : h <= other) + 1, Len(msg)>>

strip_quotes(value) ==
    IF /\ Len(value) >= 2
       /\ value[1] \in {"dq", "sq", "lg"}
       /\ value[Len(value)] = Closing(value[1])
    THEN SubSeq(value, 2, Len(value) - 1)
    ELSE value

\* the matches of the eight patterns, in their order
PatternMatches(msg) ==
    [n \in 1..8 |-> IF n <= 5 THEN SearchQuoted(msg, QuotedPatterns[n])
                    ELSE SearchRest(msg, RestPatterns[n - 5])]

extract_content(msg) ==
    LET found == PatternMatches(msg)
        matching == {n \in 1..8 : found[n] # <<0, 0>>}
        colons == {i \in 1..(Len(msg) - 1) : msg[i] = "colon"}
    IN  IF matching # {}
        THEN LET n == CHOOSE m \in matching : \A other \in matching : m <= other
             IN  strip_quotes(SubSeq(msg, found[n][1], found[n][2]))
        ELSE IF colons # {}
        THEN strip_quotes(SubSeq(msg, (CHOOSE c \in colons :
                                          \A other \in colons : c <= other) + 1,
                                 Len(msg)))
        ELSE <<>>

\* the words that may introduce the content; "cmd" when none does
Introductions ==
    {"cmd", "colon", "s_tekstom", "so_soderzhimym", "s_soderzhaniem", "kontent",
     "tekst"}

\* a command that carries a quoted content: the text between the quotes is
\* free of the closing quote
QuotedUtterances ==
    {[intro |-> intro, quote |-> quote, inner |-> inner] :
        intro \in Introductions, quote \in {"dq", "sq", "lg"},
        inner \in SeqsUpTo({"w", "kontent", "dq", "sq", "lg", "rg"}, MaxInner)}

Tokens(u) ==
    (IF u.intro = "cmd" THEN <<"cmd">> ELSE <<"cmd", u.intro>>)
        \o <<u.quote>> \o u.inner \o <<Closing(u.quote)>>

\* one call from the initial state: _extract_content keeps nothing between
\* calls
ExtractContent ==
    /\ call = NoCall
    /\ \E u \in QuotedUtterances :
        /\ Closing(u.quote) \notin {u.inner[i] : i \in 1..Len(u.inner)}
        /\ got' = extract_content(Tokens(u))
        /\ call' = [NoCall EXCEPT !.api = "extract_content", !.op = u]
        /\ UNCHANGED <<sockets, sessions, session_states, fs, info, st, session, now,
                       resp, acts, denied>>

NextExtract ==
    \/ ExtractContent

SpecExtract == InitAll /\ [][NextExtract]_vars

\* C24: the content extracted from a command with a quoted content value is
\* exactly the text between the quotes.
C24_QuotedContentIsExtracted ==
    call.api = "extract_content" => got = call.op.inner

----------------------------------------------------------------------------
\* _resolve_context_index as a function of the token and the length of the list

MaxTotal == 7

IndexTokens ==
    Digits \cup Pronouns
        \cup {"pervyj", "vtoruyu", "tretij", "poslednij", "posled", "kotiki"}

ResolveContextIndex ==
    \E token \in IndexTokens, total \in 0..MaxTotal :
        /\ got' = resolve_context_index(token, total)
        /\ call' = [NoCall EXCEPT !.api = "resolve_context_index", !.op = token,
                                  !.kind = total]
        /\ UNCHANGED <<sockets, sessions, session_states, fs, info, st, session, now,
                       resp, acts, denied>>

NextIndex ==
    \/ ResolveContextIndex

SpecIndex == InitAll /\ [][NextIndex]_vars

\* the value the token stands for, before the range check; Unknown for a
\* token that is no number, pronoun or ordinal
Unknown == 0 - 100

ClaimedIndex(token, total) ==
    CASE token = "0" -> 0 - 1
      [] token = "1" -> 0
      [] token = "2" -> 1
      [] token = "3" -> 2
      [] token = "4" -> 3
      [] token = "poslednij" -> total - 1
      [] token \in {"ego", "ee", "yeyo", "ih"} -> 0
      [] token = "pervyj" -> 0
      [] token = "vtoruyu" -> 1
      [] token = "tretij" -> 2
      [] OTHER -> Unknown

\* C25: _resolve_context_index returns the value of the token when it lies in
\* [0, total) and no index in every other case, so a returned index is a valid
\* position of the stored list.
C25_IndexIsResolvedInRange ==
    call.api = "resolve_context_index"
    => /\ got = IF ClaimedIndex(call.op, call.kind) \in 0..(call.kind - 1)
                THEN ClaimedIndex(call.op, call.kind) ELSE NoIndex
       /\ got # NoIndex => got \in 0..(call.kind - 1)

C25_Witness ==
    /\ call.api = "resolve_context_index"
    /\ call.op = "poslednij"
    /\ call.kind = 3
    /\ got = 2

----------------------------------------------------------------------------
\* Searches without result

Searches == {"search_file", "search_local", "search_web"}

\* the call c was a search: not taken as the answer to the browser question,
\* and no context command or desktop phrase
IsSearch(c) ==
    /\ c.api = "router"
    /\ ~c.msg.empty /\ ~c.msg.reset
    /\ c.msg.ctx = "" /\ c.msg.desktop = ""
    /\ infer(c.msg).intent \in Searches

\* the search of the call found nothing or failed: a file search without
\* matches, a local or web search whose task is not ok
SearchFails ==
    /\ IsSearch(call')
    /\ ~session.awaiting_browser_choice
    /\ ~resp'.ok
    /\ infer(call'.msg).intent = "search_file" => ~call'.env.raise

\* C26: a search that yields no results or fails clears the stored context,
\* and a context reference that follows it resolves nothing.
C26_FailedSearchClearsContext ==
    [][/\ SearchFails => st' = SessionState0
       /\ (/\ IsSearch(call) /\ ~resp.ok
           /\ infer(call.msg).intent = "search_file" => ~call.env.raise
           /\ ~session.awaiting_browser_choice
           /\ call'.api = "router" /\ call'.msg.ctx # "")
          => (~resp'.ok /\ acts' = <<>> /\ st' = SessionState0)]_vars

C26_Witness ==
    /\ call.api = "router"
    /\ call.msg = MsgFindWeb(TRUE)
    /\ call.env.found = <<"u1", "u2">>
    /\ acts = <<Act("search_web", "kotiki", TRUE), Act("open_site", "u1", FALSE)>>
    /\ ~resp.ok
    /\ st = SessionState0

----------------------------------------------------------------------------
\* Messages received while the choice of a browser is awaited

\* C27: while awaiting_browser_choice is true, a non-empty message that names
\* no browser of available_browsers is answered with the browser question and
\* ok=false; nothing is launched, opened or written and the session is
\* unchanged.
C27_AwaitingAnswersOnlyWithQuestion ==
    [][(/\ session.awaiting_browser_choice
        /\ call'.api = "router"
        /\ ~call'.msg.empty
        /\ call'.msg.browsers \cap Range(session.available_browsers) = {})
       => /\ resp'.reply = "browser_question"
          /\ ~resp'.ok
          /\ acts' = <<>>
          /\ fs' = fs
          /\ session' = session
          /\ st' = expire(st, now)]_vars

C27_Witness ==
    /\ session.awaiting_browser_choice
    /\ call.api = "router"
    /\ call.msg = MsgReset
    /\ resp.reply = "browser_question"
    /\ st.last_results # <<>>

----------------------------------------------------------------------------
\* The fields of the browser choice

\* C28: in every reachable AgentSession awaiting_browser_choice is true
\* exactly when available_browsers is not empty, and then available_browsers
\* holds at least two browsers.
C28_AwaitingIffBrowsersOffered ==
    /\ session.awaiting_browser_choice <=> session.available_browsers # <<>>
    /\ session.awaiting_browser_choice => Len(session.available_browsers) >= 2

C28_Witness ==
    /\ call.api = "router"
    /\ resp.reply = "browser_failed"
    /\ session.awaiting_browser_choice
    /\ session.available_browsers = <<"chrome", "edge">>

----------------------------------------------------------------------------
\* The envelope

----------------------------------------------------------------------------
\* The sandbox: run_py and the child process it starts.  call is the frame of
\* run_py (its position, its arguments, the time spent in poll, the child
\* process and the pipe), got is what run_py hands to its caller.

MaxTimeout == 3

\* scripts by what happens to them: one that does not parse, one with a
\* banned import, one whose run returns, one whose run raises, one whose run
\* returns after two seconds and one that does not return
Codes == {"syntax_error", "banned_import", "returns", "raises", "slow", "sleeps"}

check_ast_rejects(py_code) == py_code \in {"syntax_error", "banned_import"}

Duration(py_code) ==
    CASE py_code = "slow" -> 2
      [] py_code = "sleeps" -> MaxTimeout + 2
      [] OTHER -> 0

SandboxResult(ok, error) == [type |-> "TaskResult", ok |-> ok, error |-> error]

Raises(exc) == [type |-> "raised", ok |-> FALSE, error |-> exc]

NoResult == [type |-> "none", ok |-> FALSE, error |-> ""]

\* _execute: the result of run(params), or the exception it raises
execute(py_code) ==
    IF py_code = "raises" THEN Raises("ValueError") ELSE SandboxResult(TRUE, "")

\* what _worker puts on the pipe
worker(py_code) ==
    IF execute(py_code).type = "raised"
    THEN <<"error", execute(py_code).error>>
    ELSE <<"ok", execute(py_code)>>

SandboxIdle == IF call.api = "run_py" THEN call.pc = "done" ELSE TRUE

Polling == call.api = "run_py" /\ call.pc = "poll"

Frame(py_code, timeout_s, inline, pc, process, executed) ==
    [api |-> "run_py", pc |-> pc, code |-> py_code, timeout_s |-> timeout_s,
     inline |-> inline, waited |-> 0, process |-> process, pipe |-> <<>>,
     executed |-> executed]

SandboxRest ==
    UNCHANGED <<sockets, sessions, session_states, fs, info, st, session, now,
                resp, acts, denied>>

\* run_py up to parent_conn.poll: the static check, the inline branch, the
\* start of the child
RunPy ==
    \E py_code \in Codes, timeout_s \in 1..MaxTimeout, inline \in BOOLEAN :
        /\ SandboxIdle
        /\ IF check_ast_rejects(py_code)
           THEN /\ got' = SandboxResult(FALSE, "check")
                /\ call' = Frame(py_code, timeout_s, inline, "done", "none", FALSE)
           ELSE IF inline
           THEN /\ got' = IF execute(py_code).type = "raised"
                          THEN SandboxResult(FALSE, execute(py_code).error)
                          ELSE execute(py_code)
                /\ call' = Frame(py_code, timeout_s, inline, "done", "none", TRUE)
           ELSE /\ got' = NoResult
                /\ call' = Frame(py_code, timeout_s, inline, "poll", "started", FALSE)
        /\ SandboxRest

\* a second passes in parent_conn.poll(timeout_s) with nothing to read
PollWaits ==
    /\ Polling
    /\ call.process = "started"
    /\ call.pipe = <<>>
    /\ call.waited < call.timeout_s
    /\ call' = [call EXCEPT !.waited = @ + 1]
    /\ UNCHANGED got
    /\ SandboxRest

\* the child runs _worker to its end: one message, the pipe closed, exit
Worker ==
    /\ Polling
    /\ call.process = "started"
    /\ call.waited >= Duration(call.code)
    /\ call' = [call EXCEPT !.pipe = <<worker(call.code)>>, !.process = "exited",
                            !.executed = TRUE]
    /\ UNCHANGED got
    /\ SandboxRest

\* the child ends before conn.send: killed, or out of _worker by an exception
\* that is no Exception
ChildExitsSilently ==
    /\ Polling
    /\ call.process = "started"
    /\ call' = [call EXCEPT !.process = "exited"]
    /\ UNCHANGED got
    /\ SandboxRest

\* poll returned True (a message or the end of the pipe): recv and return
PollReady ==
    /\ Polling
    /\ call.pipe # <<>> \/ call.process = "exited"
    /\ got' = IF call.pipe = <<>> THEN Raises("EOFError")
              ELSE IF call.pipe[1][1] = "ok" THEN call.pipe[1][2]
              ELSE SandboxResult(FALSE, call.pipe[1][2])
    /\ call' = [call EXCEPT !.pc = "done", !.pipe = <<>>]
    /\ SandboxRest

\* poll returned False: terminate the child and return the error
PollTimeout ==
    /\ Polling
    /\ call.process = "started"
    /\ call.pipe = <<>>
    /\ call.waited = call.timeout_s
    /\ got' = SandboxResult(FALSE, "timeout")
    /\ call' = [call EXCEPT !.pc = "done", !.process = "terminated"]
    /\ SandboxRest

NextSandbox ==
    \/ RunPy
    \/ PollWaits
    \/ Worker
    \/ ChildExitsSilently
    \/ PollReady
    \/ PollTimeout

SpecSandbox == InitAll /\ [][NextSandbox]_vars

\* C30: run_py returns a TaskResult and never raises: rejected code is never
\* executed and starts no process, a timeout terminates the child and returns
\* an error, and a child that exits without a message still gives a result.
C30_RunPyAlwaysReturnsTaskResult ==
    (call.api = "run_py" /\ call.pc = "done")
    => /\ got.type = "TaskResult"
       /\ check_ast_rejects(call.code)
          => ~got.ok /\ ~call.executed /\ call.process = "none"
       /\ call.process = "terminated" => ~got.ok /\ got.error = "timeout"

====
